---- MODULE Spec2Model ----
(***************************************************************************)
(* A model of the hvac-monitor analytics engine: Reading, Sensor, Zone,    *)
(* anomaly detection, the analyzeZones use case and the loadDashboard /    *)
(* App refresh cycle.                                                      *)
(*                                                                         *)
(* JavaScript values that may be something other than a finite number are  *)
(* records [type, cls, v]: type is the result of typeof, cls tells the     *)
(* finite numbers from NaN and the infinities, v is the numeric value of a *)
(* finite number (0 otherwise).  Instants are integers, milliseconds since *)
(* the epoch, as Date.getTime() gives them.                                *)
(***************************************************************************)
EXTENDS Integers, Sequences, FiniteSets, TLC

VARIABLES now, readings, zones, made, result, app, cycles

vars == <<now, readings, zones, made, result, app, cycles>>

----------------------------------------------------------------------------
(* Bounds of the model *)

MaxTick == 2
MaxBatch == 2

----------------------------------------------------------------------------
(* Program constants *)

DedupeMs == 1000
StaleMinutes == 15
MsPerMinute == 60000

----------------------------------------------------------------------------
(* JavaScript values *)

Num(n) == [type |-> "number", cls |-> "finite", v |-> n]
NaN == [type |-> "number", cls |-> "nan", v |-> 0]
PosInf == [type |-> "number", cls |-> "posinf", v |-> 0]
NegInf == [type |-> "number", cls |-> "neginf", v |-> 0]
Str == [type |-> "string", cls |-> "none", v |-> 0]
Null == [type |-> "object", cls |-> "null", v |-> 0]
Undefined == [type |-> "undefined", cls |-> "none", v |-> 0]

IsFinite(x) == x.type = "number" /\ x.cls = "finite"

Abs(n) == IF n < 0 THEN -n ELSE n

----------------------------------------------------------------------------
(* Universes the inputs are drawn from *)

SensorIds == {"s1", "s2"}

Stamps == UNION {{i * DedupeMs, i * DedupeMs + 1} : i \in 0..MaxTick}

MaxStamp == (MaxTick * DedupeMs) + 1

StaleMs == StaleMinutes * MsPerMinute

NowValues == {0, StaleMs, StaleMs + 1, StaleMs + MaxStamp, StaleMs + MaxStamp + 1}

NoReading == [sensorId |-> "", timestamp |-> -1, tempF |-> Undefined,
              humidityPct |-> Undefined, batteryPct |-> Undefined]

----------------------------------------------------------------------------
(* Reading *)

\* the guard of the constructor: typeof tempF !== 'number' || Number.isNaN(tempF)
ReadingThrows(tempF) == tempF.type # "number" \/ tempF.cls = "nan"

\* the frozen object the constructor builds; humidityPct and batteryPct
\* default to null when the caller leaves them undefined
Reading(sensorId, timestamp, tempF, humidityPct, batteryPct) ==
  [sensorId |-> sensorId, timestamp |-> timestamp, tempF |-> tempF,
   humidityPct |-> IF humidityPct = Undefined THEN Null ELSE humidityPct,
   batteryPct |-> IF batteryPct = Undefined THEN Null ELSE batteryPct]

\* ageMinutes(referenceTime) > thresholdMinutes, with
\* ageMinutes = (referenceTime - timestamp) / 60000
isStale(r, thresholdMinutes, referenceTime) ==
  (referenceTime - r.timestamp) > thresholdMinutes * MsPerMinute

----------------------------------------------------------------------------
(* Sensor *)

\* Array.prototype.sort is stable: r goes after every element that does not
\* compare greater than it
RECURSIVE InsertByTimestamp(_, _)
InsertByTimestamp(sorted, r) ==
  IF sorted = <<>> THEN <<r>>
  ELSE IF sorted[Len(sorted)].timestamp - r.timestamp > 0
       THEN Append(InsertByTimestamp(SubSeq(sorted, 1, Len(sorted) - 1), r),
                   sorted[Len(sorted)])
       ELSE Append(sorted, r)

RECURSIVE SortByTimestamp(_)
SortByTimestamp(arr) ==
  IF arr = <<>> THEN <<>>
  ELSE InsertByTimestamp(SortByTimestamp(SubSeq(arr, 1, Len(arr) - 1)), arr[Len(arr)])

\* the filter predicate of ingestReadings, with 0-based i turned 1-based
keepReadingOff(arr, i) ==
  i = 1 \/ Abs(arr[i].timestamp - arr[i - 1].timestamp) >= DedupeMs

keepReading(arr, i) ==
  i = 1 \/ Abs(arr[i].timestamp - arr[i - 1].timestamp) > DedupeMs

RECURSIVE FilterKept(_, _)
FilterKept(arr, n) ==
  IF n = 0 THEN <<>>
  ELSE IF keepReading(arr, n) THEN Append(FilterKept(arr, n - 1), arr[n])
       ELSE FilterKept(arr, n - 1)

ownReading(sensorId, r) == r.sensorId = sensorId

ingestReadings(stored, sensorId, batch) ==
  LET pushed == stored \o SelectSeq(batch, LAMBDA r : ownReading(sensorId, r))
      sorted == SortByTimestamp(pushed)
  IN  FilterKept(sorted, Len(sorted))

latestReadingFirst(stored) ==
  IF Len(stored) > 0 THEN stored[1] ELSE NoReading

latestReading(stored) ==
  IF Len(stored) > 0 THEN stored[Len(stored)] ELSE NoReading

\* the getter without the staleness test
Sensor_currentTempFAnyAge(stored, ref) ==
  LET r == latestReading(stored)
  IN  IF r # NoReading THEN r.tempF ELSE Null

Sensor_currentTempF(stored, ref) ==
  LET r == latestReading(stored)
  IN  IF r # NoReading /\ ~isStale(r, StaleMinutes, ref) THEN r.tempF ELSE Null

Sensor_currentBattery(stored, ref) ==
  LET r == latestReading(stored)
  IN  IF r # NoReading /\ ~isStale(r, StaleMinutes, ref) THEN r.batteryPct ELSE Null

Sensor_status(stored, ref) ==
  LET r == latestReading(stored)
  IN  IF r = NoReading THEN "offline"
      ELSE IF isStale(r, StaleMinutes, ref) THEN "stale"
      ELSE "online"

----------------------------------------------------------------------------
(* Exact fractions: [n, d] with d > 0 in lowest terms; d = 0 is JavaScript's *)
(* null where a number was expected                                         *)

RECURSIVE Gcd(_, _)
Gcd(a, b) == IF b = 0 THEN a ELSE Gcd(b, a % b)

Q(n, d) ==
  LET g == Gcd(Abs(n), Abs(d))
      sg == IF d < 0 THEN -1 ELSE 1
  IN  [n |-> sg * (n \div g), d |-> sg * (d \div g)]

QInt(n) == [n |-> n, d |-> 1]
QNull == [n |-> 0, d |-> 0]
QAdd(a, b) == Q(a.n * b.d + b.n * a.d, a.d * b.d)
QSub(a, b) == Q(a.n * b.d - b.n * a.d, a.d * b.d)
QMul(a, b) == Q(a.n * b.n, a.d * b.d)
QDiv(a, b) == Q(a.n * b.d, a.d * b.n)
QLt(a, b) == a.n * b.d < b.n * a.d
QGt(a, b) == QLt(b, a)
QAbs(a) == [n |-> Abs(a.n), d |-> a.d]

RECURSIVE QSum(_)
QSum(qs) == IF qs = <<>> THEN QInt(0) ELSE QAdd(QSum(Tail(qs)), Head(qs))

RECURSIVE QMin(_)
QMin(qs) ==
  IF Len(qs) = 1 THEN qs[1]
  ELSE LET m == QMin(Tail(qs)) IN IF QLt(qs[1], m) THEN qs[1] ELSE m

RECURSIVE QMax(_)
QMax(qs) ==
  IF Len(qs) = 1 THEN qs[1]
  ELSE LET m == QMax(Tail(qs)) IN IF QGt(qs[1], m) THEN qs[1] ELSE m

----------------------------------------------------------------------------
(* Zone: a record [zoneId, name, adjacentZoneIds, sensors]; sensors is the  *)
(* _sensors array of sensor ids, the Sensor objects live in readings        *)

\* a sequence as Array.prototype.map / filter build it
RECURSIVE MapSeq(_, _)
MapSeq(f(_), arr) ==
  IF arr = <<>> THEN <<>> ELSE <<f(Head(arr))>> \o MapSeq(f, Tail(arr))

Zone(zoneId, name, adjacentZoneIds) ==
  [zoneId |-> zoneId, name |-> name, adjacentZoneIds |-> adjacentZoneIds,
   sensors |-> <<>>]

addSensor(z, sensorId) ==
  IF \E i \in 1..Len(z.sensors) : z.sensors[i] = sensorId
  THEN z
  ELSE [z EXCEPT !.sensors = Append(z.sensors, sensorId)]

removeSensor(z, sensorId) ==
  [z EXCEPT !.sensors = SelectSeq(z.sensors, LAMBDA s : s # sensorId)]

sensorCount(z) == Len(z.sensors)

countsOnlineLoose(st) == st # "offline"

countsOnline(st) == st = "online"

coverageStatus(z, rd, ref) ==
  IF Len(z.sensors) = 0 THEN "uncovered"
  ELSE LET online == Len(SelectSeq(z.sensors,
                         LAMBDA s : countsOnline(Sensor_status(rd[s], ref))))
       IN  IF online = 0 THEN "uncovered"
           ELSE IF online < Len(z.sensors) THEN "partial"
           ELSE "covered"

\* the temps array the three temperature getters start from
SensorTempsOf(z, rd, ref) ==
  LET all == MapSeq(LAMBDA s : Sensor_currentTempF(rd[s], ref), z.sensors)
      present == SelectSeq(all, LAMBDA t : t # Null)
  IN  MapSeq(LAMBDA t : QInt(t.v), present)

Zone_currentTempF(z, rd, ref) ==
  LET temps == SensorTempsOf(z, rd, ref)
  IN  IF Len(temps) = 0 THEN QNull ELSE QDiv(QSum(temps), QInt(Len(temps)))

minTempF(z, rd, ref) ==
  LET temps == SensorTempsOf(z, rd, ref)
  IN  IF Len(temps) > 0 THEN QMin(temps) ELSE QNull

maxTempF(z, rd, ref) ==
  LET temps == SensorTempsOf(z, rd, ref)
  IN  IF Len(temps) > 0 THEN QMax(temps) ELSE QNull

tempSpreadF(z, rd, ref) ==
  LET min == minTempF(z, rd, ref)
      max == maxTempF(z, rd, ref)
  IN  IF min = QNull \/ max = QNull THEN QNull ELSE QSub(max, min)

----------------------------------------------------------------------------
(* Time series of a zone *)

MsPerHour == 3600000

\* readings with timestamp >= referenceTime - hours * 3_600_000
readingsInWindowStrict(stored, hours, ref) ==
  SelectSeq(stored, LAMBDA r : r.timestamp > ref - hours * MsPerHour)

readingsInWindow(stored, hours, ref) ==
  SelectSeq(stored, LAMBDA r : r.timestamp >= ref - hours * MsPerHour)

RECURSIVE FlatMap(_, _)
FlatMap(f(_), arr) ==
  IF arr = <<>> THEN <<>> ELSE f(Head(arr)) \o FlatMap(f, Tail(arr))

\* the keys of the buckets Map, in insertion order
RECURSIVE BucketKeys(_, _)
BucketKeys(rs, bucketMs) ==
  IF rs = <<>> THEN <<>>
  ELSE LET before == BucketKeys(SubSeq(rs, 1, Len(rs) - 1), bucketMs)
           key == (rs[Len(rs)].timestamp \div bucketMs) * bucketMs
       IN  IF \E i \in 1..Len(before) : before[i] = key THEN before
           ELSE Append(before, key)

getTimeSeries(z, hours, bucketMinutes, rd, ref) ==
  LET allReadings == FlatMap(LAMBDA s : readingsInWindow(rd[s], hours, ref), z.sensors)
      bucketMs == bucketMinutes * MsPerMinute
      keys == BucketKeys(allReadings, bucketMs)
      temps(key) ==
        MapSeq(LAMBDA r : QInt(r.tempF.v),
               SelectSeq(allReadings,
                         LAMBDA r : (r.timestamp \div bucketMs) * bucketMs = key))
      point(key) ==
        [timestamp |-> key + (bucketMs \div 2),
         tempF |-> QDiv(QSum(temps(key)), QInt(Len(temps(key)))),
         sensorCount |-> Len(temps(key))]
  IN  IF Len(allReadings) = 0 THEN <<>>
      ELSE SortByTimestamp(MapSeq(point, keys))

----------------------------------------------------------------------------
(* Thermal analysis.  Math.round(x) is floor(x + 1/2).                      *)

QFloor(q) == q.n \div q.d

\* Math.round(q * scale) / scale
QRound(q, scale) == Q(QFloor(QAdd(QMul(q, QInt(scale)), Q(1, 2))), scale)

NoRate == [ratePerHour |-> QNull, r2 |-> QNull, direction |-> "null"]

\* Math.abs(denom) < 1e-10: every fraction this model can hold has a
\* denominator far below 10^10, so only 0 is that small
TinyDenom(denom) == denom.n = 0

\* the same with the window counted back from the wall clock
calcRateOfChangeWallClock(series, windowMinutes) ==
  IF Len(series) < 2 THEN NoRate
  ELSE
    LET last == now
        cutoff == last - windowMinutes * MsPerMinute
        window == SelectSeq(series, LAMBDA p : p.timestamp >= cutoff)
    IN  IF Len(window) < 2 THEN NoRate
        ELSE
          LET t0 == window[1].timestamp
              xs == MapSeq(LAMBDA p : Q(p.timestamp - t0, MsPerHour), window)
              ys == MapSeq(LAMBDA p : p.tempF, window)
              n == QInt(Len(xs))
              idx == [i \in 1..Len(xs) |-> i]
              sumX == QSum(xs)
              sumY == QSum(ys)
              sumXY == QSum(MapSeq(LAMBDA i : QMul(xs[i], ys[i]), idx))
              sumX2 == QSum(MapSeq(LAMBDA x : QMul(x, x), xs))
              denom == QSub(QMul(n, sumX2), QMul(sumX, sumX))
          IN  IF TinyDenom(denom) THEN NoRate
              ELSE
                LET slope == QDiv(QSub(QMul(n, sumXY), QMul(sumX, sumY)), denom)
                    meanY == QDiv(sumY, n)
                    meanX == QDiv(sumX, n)
                    yHat(i) == QAdd(meanY, QMul(slope, QSub(xs[i], meanX)))
                    sq(q) == QMul(q, q)
                    ssRes == QSum(MapSeq(LAMBDA i : sq(QSub(ys[i], yHat(i))), idx))
                    ssTot == QSum(MapSeq(LAMBDA y : sq(QSub(y, meanY)), ys))
                    r2 == IF QGt(ssTot, QInt(0))
                          THEN QSub(QInt(1), QDiv(ssRes, ssTot))
                          ELSE QInt(0)
                IN  [ratePerHour |-> QRound(slope, 100),
                     r2 |-> QRound(r2, 1000),
                     direction |-> IF QLt(QAbs(slope), Q(3, 10)) THEN "stable"
                                   ELSE IF QGt(slope, QInt(0)) THEN "rising"
                                   ELSE "falling"]

calcRateOfChange(series, windowMinutes) ==
  IF Len(series) < 2 THEN NoRate
  ELSE
    LET last == series[Len(series)].timestamp
        cutoff == last - windowMinutes * MsPerMinute
        window == SelectSeq(series, LAMBDA p : p.timestamp >= cutoff)
    IN  IF Len(window) < 2 THEN NoRate
        ELSE
          LET t0 == window[1].timestamp
              xs == MapSeq(LAMBDA p : Q(p.timestamp - t0, MsPerHour), window)
              ys == MapSeq(LAMBDA p : p.tempF, window)
              n == QInt(Len(xs))
              idx == [i \in 1..Len(xs) |-> i]
              sumX == QSum(xs)
              sumY == QSum(ys)
              sumXY == QSum(MapSeq(LAMBDA i : QMul(xs[i], ys[i]), idx))
              sumX2 == QSum(MapSeq(LAMBDA x : QMul(x, x), xs))
              denom == QSub(QMul(n, sumX2), QMul(sumX, sumX))
          IN  IF TinyDenom(denom) THEN NoRate
              ELSE
                LET slope == QDiv(QSub(QMul(n, sumXY), QMul(sumX, sumY)), denom)
                    meanY == QDiv(sumY, n)
                    meanX == QDiv(sumX, n)
                    yHat(i) == QAdd(meanY, QMul(slope, QSub(xs[i], meanX)))
                    sq(q) == QMul(q, q)
                    ssRes == QSum(MapSeq(LAMBDA i : sq(QSub(ys[i], yHat(i))), idx))
                    ssTot == QSum(MapSeq(LAMBDA y : sq(QSub(y, meanY)), ys))
                    r2 == IF QGt(ssTot, QInt(0))
                          THEN QSub(QInt(1), QDiv(ssRes, ssTot))
                          ELSE QInt(0)
                IN  [ratePerHour |-> QRound(slope, 100),
                     r2 |-> QRound(r2, 1000),
                     direction |-> IF QLt(QAbs(slope), Q(3, 10)) THEN "stable"
                                   ELSE IF QGt(slope, QInt(0)) THEN "rising"
                                   ELSE "falling"]

estimateHeatLoss(indoorTempF, outdoorTempF, thermalResistance) ==
  IF ~QGt(thermalResistance, QInt(0)) THEN QInt(0)
  ELSE QDiv(QSub(indoorTempF, outdoorTempF), thermalResistance)

NoDelta == [deltaF |-> QNull, abs |-> QNull, warmer |-> <<>>]

calcZoneDelta(zoneA, zoneB, rd, ref) ==
  LET tA == Zone_currentTempF(zoneA, rd, ref)
      tB == Zone_currentTempF(zoneB, rd, ref)
  IN  IF tA = QNull \/ tB = QNull THEN NoDelta
      ELSE LET delta == QSub(tA, tB)
           IN  [deltaF |-> QRound(delta, 10),
                abs |-> QRound(QAbs(delta), 10),
                warmer |-> IF QGt(delta, QInt(0)) THEN zoneA.zoneId
                           ELSE IF QLt(delta, QInt(0)) THEN zoneB.zoneId
                           ELSE <<"e", "q", "u", "a", "l">>]

NoSpread == [spreadF |-> QNull, coldest |-> "", warmest |-> ""]

\* covered.sort((a, b) => a.temp - b.temp), stable
RECURSIVE InsertByTemp(_, _)
InsertByTemp(sorted, c) ==
  IF sorted = <<>> THEN <<c>>
  ELSE IF QGt(sorted[Len(sorted)].temp, c.temp)
       THEN Append(InsertByTemp(SubSeq(sorted, 1, Len(sorted) - 1), c),
                   sorted[Len(sorted)])
       ELSE Append(sorted, c)

RECURSIVE SortByTemp(_)
SortByTemp(arr) ==
  IF arr = <<>> THEN <<>>
  ELSE InsertByTemp(SortByTemp(SubSeq(arr, 1, Len(arr) - 1)), arr[Len(arr)])

\* the same with a single covered zone taken as enough
calcWholeHouseSpreadOne(zs, rd, ref) ==
  LET covered ==
        MapSeq(LAMBDA z : [id |-> z.zoneId, name |-> z.name,
                           temp |-> Zone_currentTempF(z, rd, ref)],
               SelectSeq(zs, LAMBDA z : Zone_currentTempF(z, rd, ref) # QNull))
  IN  IF Len(covered) < 1 THEN NoSpread
      ELSE LET sorted == SortByTemp(covered)
               coldest == sorted[1]
               warmest == sorted[Len(sorted)]
           IN  [spreadF |-> QRound(QSub(warmest.temp, coldest.temp), 10),
                coldest |-> coldest.name,
                warmest |-> warmest.name]

calcWholeHouseSpread(zs, rd, ref) ==
  LET covered ==
        MapSeq(LAMBDA z : [id |-> z.zoneId, name |-> z.name,
                           temp |-> Zone_currentTempF(z, rd, ref)],
               SelectSeq(zs, LAMBDA z : Zone_currentTempF(z, rd, ref) # QNull))
  IN  IF Len(covered) < 2 THEN NoSpread
      ELSE LET sorted == SortByTemp(covered)
               coldest == sorted[1]
               warmest == sorted[Len(sorted)]
           IN  [spreadF |-> QRound(QSub(warmest.temp, coldest.temp), 10),
                coldest |-> coldest.name,
                warmest |-> warmest.name]

----------------------------------------------------------------------------
(* Anomaly detection.  An anomaly is [level, zoneId, code, value, offline]: *)
(* value is QNull where the code sets none, offline is the count that the  *)
(* PARTIAL_COVERAGE message names (-1 for the other codes)                 *)

ThresholdKeys == {"comfortLowF", "comfortHighF", "dangerLowF", "dangerHighF",
                  "maxRatePerHour", "maxZoneDeltaF", "maxWholeHouseSpreadF",
                  "staleSensorMinutes"}

DEFAULT_THRESHOLDS ==
  [comfortLowF |-> 65, comfortHighF |-> 78, dangerLowF |-> 60, dangerHighF |-> 85,
   maxRatePerHour |-> 3, maxZoneDeltaF |-> 5, maxWholeHouseSpreadF |-> 8,
   staleSensorMinutes |-> 15]

\* { ...DEFAULT_THRESHOLDS, ...thresholdOverrides }
MergeThresholds(thresholdOverrides) ==
  [k \in ThresholdKeys |->
     IF k \in DOMAIN thresholdOverrides THEN thresholdOverrides[k]
     ELSE DEFAULT_THRESHOLDS[k]]

HouseId == <<"_", "_", "h", "o", "u", "s", "e", "_", "_">>

Anomaly(level, zoneId, code, value) ==
  [level |-> level, zoneId |-> zoneId, code |-> code, value |-> value, offline |-> -1]

\* the else-if chain of the temperature range checks, warning bands first
bandChecksWarningFirst(z, temp, T) ==
  IF temp = QNull THEN <<>>
  ELSE IF QLt(temp, QInt(T.comfortLowF))
       THEN <<Anomaly("warning", z.zoneId, "TEMP_LOW", temp)>>
  ELSE IF QLt(temp, QInt(T.dangerLowF))
       THEN <<Anomaly("danger", z.zoneId, "TEMP_DANGER_LOW", temp)>>
  ELSE IF QGt(temp, QInt(T.comfortHighF))
       THEN <<Anomaly("warning", z.zoneId, "TEMP_HIGH", temp)>>
  ELSE IF QGt(temp, QInt(T.dangerHighF))
       THEN <<Anomaly("danger", z.zoneId, "TEMP_DANGER_HIGH", temp)>>
  ELSE <<>>

\* the chain with its else branches dropped: every matching band reports
bandChecksIndependent(z, temp, T) ==
  IF temp = QNull THEN <<>>
  ELSE (IF QLt(temp, QInt(T.dangerLowF))
        THEN <<Anomaly("danger", z.zoneId, "TEMP_DANGER_LOW", temp)>> ELSE <<>>)
    \o (IF QLt(temp, QInt(T.comfortLowF))
        THEN <<Anomaly("warning", z.zoneId, "TEMP_LOW", temp)>> ELSE <<>>)
    \o (IF QGt(temp, QInt(T.dangerHighF))
        THEN <<Anomaly("danger", z.zoneId, "TEMP_DANGER_HIGH", temp)>> ELSE <<>>)
    \o (IF QGt(temp, QInt(T.comfortHighF))
        THEN <<Anomaly("warning", z.zoneId, "TEMP_HIGH", temp)>> ELSE <<>>)

bandChecks(z, temp, T) ==
  IF temp = QNull THEN <<>>
  ELSE IF QLt(temp, QInt(T.dangerLowF))
       THEN <<Anomaly("danger", z.zoneId, "TEMP_DANGER_LOW", temp)>>
  ELSE IF QLt(temp, QInt(T.comfortLowF))
       THEN <<Anomaly("warning", z.zoneId, "TEMP_LOW", temp)>>
  ELSE IF QGt(temp, QInt(T.dangerHighF))
       THEN <<Anomaly("danger", z.zoneId, "TEMP_DANGER_HIGH", temp)>>
  ELSE IF QGt(temp, QInt(T.comfortHighF))
       THEN <<Anomaly("warning", z.zoneId, "TEMP_HIGH", temp)>>
  ELSE <<>>

\* the rate check reporting the size of the rate as the anomaly's value
rateCheckAbs(z, rateOfChangeMap, T) ==
  IF z.zoneId \in DOMAIN rateOfChangeMap
     /\ QGt(QAbs(rateOfChangeMap[z.zoneId].ratePerHour), QInt(T.maxRatePerHour))
  THEN <<Anomaly("warning", z.zoneId, "RAPID_CHANGE",
                 QAbs(rateOfChangeMap[z.zoneId].ratePerHour))>>
  ELSE <<>>

\* rateOfChangeMap is a function from the zoneIds it has to rate records
rateCheck(z, rateOfChangeMap, T) ==
  IF z.zoneId \in DOMAIN rateOfChangeMap
     /\ QGt(QAbs(rateOfChangeMap[z.zoneId].ratePerHour), QInt(T.maxRatePerHour))
  THEN <<Anomaly("warning", z.zoneId, "RAPID_CHANGE",
                 rateOfChangeMap[z.zoneId].ratePerHour)>>
  ELSE <<>>

\* the coverage checks without the test of zone.sensorCount
coverageChecksAnyCount(z, rd, ref) ==
  IF coverageStatus(z, rd, ref) = "uncovered"
  THEN <<Anomaly("warning", z.zoneId, "ALL_SENSORS_OFFLINE", QNull)>>
  ELSE IF coverageStatus(z, rd, ref) = "partial"
  THEN <<[Anomaly("info", z.zoneId, "PARTIAL_COVERAGE", QNull) EXCEPT
            !.offline = Len(SelectSeq(z.sensors,
                              LAMBDA s : Sensor_status(rd[s], ref) = "offline"))]>>
  ELSE <<>>

coverageChecks(z, rd, ref) ==
  IF sensorCount(z) > 0 /\ coverageStatus(z, rd, ref) = "uncovered"
  THEN <<Anomaly("warning", z.zoneId, "ALL_SENSORS_OFFLINE", QNull)>>
  ELSE IF coverageStatus(z, rd, ref) = "partial"
  THEN <<[Anomaly("info", z.zoneId, "PARTIAL_COVERAGE", QNull) EXCEPT
            !.offline = Len(SelectSeq(z.sensors,
                              LAMBDA s : Sensor_status(rd[s], ref) = "offline"))]>>
  ELSE <<>>

spreadCheck(z, rd, ref, T) ==
  LET spread == tempSpreadF(z, rd, ref)
  IN  IF spread # QNull /\ QGt(spread, QInt(T.maxZoneDeltaF))
      THEN <<Anomaly("warning", z.zoneId, "INTRA_ZONE_SPREAD", spread)>>
      ELSE <<>>

RECURSIVE batteryChecks(_, _, _, _)
batteryChecks(z, sensors, rd, ref) ==
  IF sensors = <<>> THEN <<>>
  ELSE LET b == Sensor_currentBattery(rd[Head(sensors)], ref)
       IN  (IF b # Null /\ b.v < 20
            THEN <<Anomaly(IF b.v < 10 THEN "warning" ELSE "info",
                           z.zoneId, "LOW_BATTERY", QInt(b.v))>>
            ELSE <<>>) \o batteryChecks(z, Tail(sensors), rd, ref)

\* one pass of the loop over zones
zoneChecks(z, rateOfChangeMap, T, rd, ref) ==
  bandChecks(z, Zone_currentTempF(z, rd, ref), T)
    \o rateCheck(z, rateOfChangeMap, T)
    \o coverageChecks(z, rd, ref)
    \o spreadCheck(z, rd, ref, T)
    \o batteryChecks(z, z.sensors, rd, ref)

RECURSIVE allZoneChecks(_, _, _, _, _)
allZoneChecks(zs, rateOfChangeMap, T, rd, ref) ==
  IF zs = <<>> THEN <<>>
  ELSE zoneChecks(Head(zs), rateOfChangeMap, T, rd, ref)
         \o allZoneChecks(Tail(zs), rateOfChangeMap, T, rd, ref)

\* zones.map(z => z.currentTempF).filter(t => t !== null)
ZoneTempsOf(zs, rd, ref) ==
  SelectSeq(MapSeq(LAMBDA z : Zone_currentTempF(z, rd, ref), zs),
            LAMBDA t : t # QNull)

houseSpreadCheck(zs, T, rd, ref) ==
  LET temps == ZoneTempsOf(zs, rd, ref)
  IN  IF Len(temps) >= 2
      THEN LET wholeSpread == QSub(QMax(temps), QMin(temps))
           IN  IF QGt(wholeSpread, QInt(T.maxWholeHouseSpreadF))
               THEN <<Anomaly("warning", HouseId, "HOUSE_SPREAD", wholeSpread)>>
               ELSE <<>>
      ELSE <<>>

detectAnomalies(zs, rateOfChangeMap, thresholdOverrides, rd, ref) ==
  LET T == MergeThresholds(thresholdOverrides)
  IN  allZoneChecks(zs, rateOfChangeMap, T, rd, ref) \o houseSpreadCheck(zs, T, rd, ref)

HasLevel(anomalies, level) ==
  \E i \in 1..Len(anomalies) : anomalies[i].level = level

worstLevelInfoFirst(anomalies) ==
  IF HasLevel(anomalies, "info") THEN "info"
  ELSE IF HasLevel(anomalies, "warning") THEN "warning"
  ELSE IF HasLevel(anomalies, "danger") THEN "danger"
  ELSE "ok"

worstLevel(anomalies) ==
  IF HasLevel(anomalies, "danger") THEN "danger"
  ELSE IF HasLevel(anomalies, "warning") THEN "warning"
  ELSE IF HasLevel(anomalies, "info") THEN "info"
  ELSE "ok"

----------------------------------------------------------------------------
(* analyzeZones.  Zone ids are strings, modelled as sequences of characters *)
(* so that sorting and joining them is what the code does to them          *)

\* the characters the ids of the model use, in ascending UTF-16 code unit
Alphabet == <<":", "_", "a", "b", "c", "e", "h", "l", "o", "q", "s", "u">>

CodeUnit(c) == CHOOSE i \in 1..Len(Alphabet) : Alphabet[i] = c

\* a < b as the default comparator of Array.prototype.sort orders strings
RECURSIVE StrLess(_, _)
StrLess(a, b) ==
  IF b = <<>> THEN FALSE
  ELSE IF a = <<>> THEN TRUE
  ELSE IF CodeUnit(Head(a)) < CodeUnit(Head(b)) THEN TRUE
  ELSE IF CodeUnit(Head(a)) > CodeUnit(Head(b)) THEN FALSE
  ELSE StrLess(Tail(a), Tail(b))

\* [zone.zoneId, adjId].sort().join('::')
pairKey(zoneId, adjId) ==
  IF StrLess(adjId, zoneId) THEN adjId \o <<":", ":">> \o zoneId
  ELSE zoneId \o <<":", ":">> \o adjId

\* new Map(zones.map(z => [z.zoneId, z])).get(id): the last zone of that id
zoneMapHas(zs, id) == \E i \in 1..Len(zs) : zs[i].zoneId = id

zoneMapGet(zs, id) ==
  zs[CHOOSE i \in 1..Len(zs) :
       zs[i].zoneId = id /\ \A j \in (i + 1)..Len(zs) : zs[j].zoneId # id]

\* the (zone, adjId) pairs in the order the two nested loops visit them
Declarations(zs) ==
  FlatMap(LAMBDA z : MapSeq(LAMBDA adjId : [zone |-> z, adjId |-> adjId],
                            z.adjacentZoneIds),
          zs)

\* the body of the inner loop run over decls[1..n]: the processedPairs set
\* and the deltas array after it
RECURSIVE deltaLoop(_, _, _, _, _)
deltaLoop(decls, n, zs, rd, ref) ==
  IF n = 0 THEN [processedPairs |-> {}, deltas |-> <<>>]
  ELSE
    LET before == deltaLoop(decls, n - 1, zs, rd, ref)
        zone == decls[n].zone
        adjId == decls[n].adjId
        key == pairKey(zone.zoneId, adjId)
    IN  IF key \in before.processedPairs THEN before
        ELSE IF ~zoneMapHas(zs, adjId)
             THEN [before EXCEPT !.processedPairs = @ \cup {key}]
        ELSE [processedPairs |-> before.processedPairs \cup {key},
              deltas |-> Append(before.deltas,
                           [zoneAId |-> zone.zoneId, zoneBId |-> adjId,
                            zoneAName |-> zone.name,
                            zoneBName |-> zoneMapGet(zs, adjId).name,
                            delta |-> calcZoneDelta(zone, zoneMapGet(zs, adjId), rd, ref)])]

\* the largest r with r * r <= n, searched between lo and hi
RECURSIVE SqrtFloor(_, _, _)
SqrtFloor(n, lo, hi) ==
  IF lo = hi THEN lo
  ELSE LET mid == (lo + hi + 1) \div 2
       IN  IF mid * mid <= n THEN SqrtFloor(n, mid, hi) ELSE SqrtFloor(n, lo, mid - 1)

\* Math.sqrt of a fraction that is not negative: the root itself when it is
\* a multiple of 1/100, the root cut to hundredths otherwise, so that a
\* comparison of the result with a multiple of 1/100 is the exact one
MathSqrt(q) ==
  LET scaled == (q.n * 10000) \div q.d
  IN  Q(SqrtFloor(scaled, 0, 10000), 100)

calcUniformityScore(zs, toleranceF, rd, ref) ==
  LET temps == ZoneTempsOf(zs, rd, ref)
  IN  IF Len(temps) < 2 THEN QNull
      ELSE LET n == QInt(Len(temps))
               mean == QDiv(QSum(temps), n)
               sq(q) == QMul(q, q)
               variance == QDiv(QSum(MapSeq(LAMBDA t : sq(QSub(t, mean)), temps)), n)
               stdDev == MathSqrt(variance)
               score == QSub(QInt(1), QDiv(stdDev, toleranceF))
           IN  QMax(<<QInt(0), QMin(<<QInt(1), score>>)>>)

DEFAULT_TOLERANCE_F == 2

DEFAULT_R == 1

NoWeather == [tempF |-> Undefined]

\* one entry of zoneAnalyses
zoneAnalysis(z, weather, thermalResistances, rd, ref) ==
  LET series == getTimeSeries(z, 1, 5, rd, ref)
      rateOfChange == calcRateOfChange(series, 30)
      temp == Zone_currentTempF(z, rd, ref)
      known == temp # QNull /\ weather.tempF # Null /\ weather.tempF # Undefined
      \* thermalResistances.get(zone.zoneId) || DEFAULT_R
      R == IF z.zoneId \in DOMAIN thermalResistances
              /\ thermalResistances[z.zoneId].n # 0
           THEN thermalResistances[z.zoneId]
           ELSE QInt(DEFAULT_R)
  IN  [zoneId |-> z.zoneId,
       rateOfChange |-> rateOfChange,
       heatLossBtuHr |->
         IF known
         THEN QRound(estimateHeatLoss(temp, QInt(weather.tempF.v), R), 10)
         ELSE QNull,
       indoorOutdoorDeltaF |->
         IF known THEN QRound(QSub(temp, QInt(weather.tempF.v)), 10) ELSE QNull]

analyzeZones(zs, weather, thermalResistances, rd, ref) ==
  LET ids == {zs[i].zoneId : i \in 1..Len(zs)}
      zoneAnalyses ==
        [id \in ids |-> zoneAnalysis(zoneMapGet(zs, id), weather, thermalResistances, rd, ref)]
      rateMap ==
        [id \in {i \in ids : zoneAnalyses[i].rateOfChange # NoRate} |->
           zoneAnalyses[id].rateOfChange]
      decls == Declarations(zs)
      anomalies == detectAnomalies(zs, rateMap, <<>>, rd, ref)
  IN  [kind |-> "analysis",
       zoneAnalyses |-> zoneAnalyses,
       deltas |-> deltaLoop(decls, Len(decls), zs, rd, ref).deltas,
       houseSpread |-> calcWholeHouseSpread(zs, rd, ref),
       uniformityScore |-> calcUniformityScore(zs, QInt(DEFAULT_TOLERANCE_F), rd, ref),
       anomalies |-> anomalies,
       overallStatus |-> worstLevel(anomalies)]

----------------------------------------------------------------------------
(* Specification SpecEntities: the mutators of Sensor and Zone and the wall *)
(* clock                                                                    *)

SensorTemps == {Num(70)}

\* what a caller may hand to sensor s: readings of s at any instant of the
\* grid, and a reading of each other sensor
BatchReadings(s) ==
  {Reading(s, t, f, Undefined, Undefined) : t \in Stamps, f \in SensorTemps}
    \cup {Reading(o, 0, f, Undefined, Undefined) : o \in SensorIds \ {s}, f \in SensorTemps}

Batches(s) == UNION {[1..n -> BatchReadings(s)] : n \in 0..MaxBatch}

NoResult == [kind |-> "none"]

\* no App was constructed
NoApp == [kind |-> "none"]

InitEntities ==
  /\ now = 0
  /\ readings = [s \in SensorIds |-> <<>>]
  /\ zones = <<Zone(<<"a">>, "A", <<>>)>>
  /\ made = NoResult
  /\ result = NoResult
  /\ app = NoApp
  /\ cycles = <<>>

IngestReadings(s, batch) ==
  /\ readings' = [readings EXCEPT ![s] = ingestReadings(readings[s], s, batch)]
  /\ UNCHANGED <<now, zones, made, result, app, cycles>>

ClearReadings(s) ==
  /\ readings' = [readings EXCEPT ![s] = <<>>]
  /\ UNCHANGED <<now, zones, made, result, app, cycles>>

Tick ==
  /\ \E t \in NowValues : t > now /\ now' = t
  /\ UNCHANGED <<readings, zones, made, result, app, cycles>>

AddSensor(i, s) ==
  /\ zones' = [zones EXCEPT ![i] = addSensor(zones[i], s)]
  /\ UNCHANGED <<now, readings, made, result, app, cycles>>

RemoveSensor(i, s) ==
  /\ zones' = [zones EXCEPT ![i] = removeSensor(zones[i], s)]
  /\ UNCHANGED <<now, readings, made, result, app, cycles>>

NextEntities ==
  \/ \E s \in SensorIds : \E batch \in Batches(s) : IngestReadings(s, batch)
  \/ \E s \in SensorIds : ClearReadings(s)
  \/ \E i \in 1..Len(zones), s \in SensorIds : AddSensor(i, s)
  \/ \E i \in 1..Len(zones), s \in SensorIds : RemoveSensor(i, s)
  \/ Tick

SpecEntities == InitEntities /\ [][NextEntities]_vars

----------------------------------------------------------------------------
\* C1: whatever ingestReadings and clearReadings calls were made, every
\* sensor's stored history is strictly ascending by timestamp, consecutive
\* stored readings are more than 1000 ms apart, and every stored reading
\* carries the sensor's own sensorId.
HistorySortedDeduped ==
  \A s \in SensorIds :
    /\ \A i \in 1..Len(readings[s]) : readings[s][i].sensorId = s
    /\ \A i \in 2..Len(readings[s]) :
         readings[s][i].timestamp - readings[s][i - 1].timestamp > 1000

\* a history of two readings, the second one the closest the grid allows,
\* next to a sensor that was handed readings and kept none of the other's
HistoryWitness ==
  \E s \in SensorIds :
    /\ Len(readings[s]) = 2
    /\ \E o \in SensorIds \ {s} : Len(readings[o]) = 1
    /\ readings[s][2].timestamp - readings[s][1].timestamp = 1001

OnlyStaleIsOffline ==
  \A s \in SensorIds :
    (\A i \in 1..Len(readings[s]) : isStale(readings[s][i], StaleMinutes, now))
      => Sensor_status(readings[s], now) = "offline"

\* C6: coverageStatus is covered exactly when the zone has at least one
\* sensor and all of them are online, partial exactly when at least one but
\* not all of them are online, and uncovered exactly when the zone has no
\* sensor or none of them is online.
CoverageByOnlineCount ==
  \A i \in 1..Len(zones) :
    LET z == zones[i]
        members == {z.sensors[k] : k \in 1..Len(z.sensors)}
        online == {s \in members :
                     /\ readings[s] # <<>>
                     /\ now - readings[s][Len(readings[s])].timestamp <= 15 * 60 * 1000}
        cs == coverageStatus(z, readings, now)
    IN  /\ (cs = "covered") <=> (members # {} /\ online = members)
        /\ (cs = "partial") <=> (online # {} /\ online # members)
        /\ (cs = "uncovered") <=> (members = {} \/ online = {})

\* a zone of two sensors, one online and the other stale
CoverageWitness ==
  \E i \in 1..Len(zones) :
    /\ Len(zones[i].sensors) = 2
    /\ \E s \in SensorIds : Sensor_status(readings[s], now) = "online"
    /\ \E s \in SensorIds : Sensor_status(readings[s], now) = "stale"
    /\ coverageStatus(zones[i], readings, now) = "partial"

----------------------------------------------------------------------------
(* Specification SpecReading: the Reading constructor on raw field values   *)

RawTemps == {Num(58), Num(70), Num(-4), NaN, PosInf, NegInf, Str, Null, Undefined}

RawOptional == {Num(15), Null, Undefined}

InitReading ==
  /\ now = 0
  /\ readings = [s \in SensorIds |-> <<>>]
  /\ zones = <<>>
  /\ made = NoResult
  /\ result = NoResult
  /\ app = NoApp
  /\ cycles = <<>>

\* new Reading({...}): either throws or yields the frozen object
Construct(sensorId, timestamp, tempF, batteryPct) ==
  /\ made' = IF ReadingThrows(tempF)
             THEN [kind |-> "threw", tempF |-> tempF, reading |-> NoReading]
             ELSE [kind |-> "reading", tempF |-> tempF,
                   reading |-> Reading(sensorId, timestamp, tempF, Undefined, batteryPct)]
  /\ UNCHANGED <<now, readings, zones, result, app, cycles>>

NextReading ==
  \E s \in SensorIds, t \in Stamps, f \in RawTemps, b \in RawOptional :
    Construct(s, t, f, b)

SpecReading == InitReading /\ [][NextReading]_vars

\* C9: constructing a Reading throws for every tempF that is not a finite
\* number (a non-number, NaN, +Infinity, -Infinity) and succeeds for every
\* finite number.
CtorRejectsNonFinite ==
  made # NoResult => ((made.kind = "threw") <=> ~IsFinite(made.tempF))

----------------------------------------------------------------------------
(* Specification SpecAnomalies: detectAnomalies, worstLevel and analyzeZones *)
(* over zones whose sensors hold histories of at most two readings; each    *)
(* behaviour is one call on one snapshot                                    *)

MaxList == 2

AnalysisNow == 100 * MsPerMinute

ZoneTempsF == {58, 62, 70, 80, 88}

\* what a sensor may hold at AnalysisNow: nothing, one stale reading, or a
\* fresh reading, with any battery level for s1 and after an earlier
\* reading for s2
FreshReadings(s, batteries) ==
  {Reading(s, AnalysisNow - MsPerMinute, Num(t), Undefined, b) :
     t \in ZoneTempsF, b \in batteries}

EarlierReadings(s) ==
  {Reading(s, AnalysisNow - 10 * MsPerMinute, Num(t), Undefined, Null) : t \in {62, 70}}

HistoriesOf(s) ==
  {<<>>, <<Reading(s, AnalysisNow - 20 * MsPerMinute, Num(70), Undefined, Num(5))>>}
    \cup (IF s = "s1"
          THEN {<<r>> : r \in FreshReadings(s, {Null, Num(5), Num(15)})}
          ELSE {<<r>> : r \in FreshReadings(s, {Null})}
                 \cup {<<e, r>> : e \in EarlierReadings(s), r \in FreshReadings(s, {Null})})

IdA == <<"a">>
IdC == <<"c">>

\* a zone as the registry builds it: constructed, then handed its sensors
RECURSIVE WithSensors(_, _)
WithSensors(z, sensors) ==
  IF sensors = <<>> THEN z
  ELSE addSensor(WithSensors(z, SubSeq(sensors, 1, Len(sensors) - 1)),
                 sensors[Len(sensors)])

AnomalyZoneLists ==
  {<<WithSensors(Zone(IdA, "A", <<IdC>>), <<"s1", "s2">>), Zone(IdC, "C", <<IdA>>)>>,
   <<WithSensors(Zone(IdA, "A", <<IdC>>), <<"s1">>),
     WithSensors(Zone(IdC, "C", <<IdA>>), <<"s2">>)>>,
   <<WithSensors(Zone(IdC, "C", <<>>), <<"s2", "s1">>)>>}

InitAnomalies ==
  /\ now = AnalysisNow
  /\ readings \in {rd \in [SensorIds -> UNION {HistoriesOf(s) : s \in SensorIds}] :
                     \A s \in SensorIds : rd[s] \in HistoriesOf(s)}
  /\ zones \in AnomalyZoneLists
  /\ made = NoResult
  /\ result = NoResult
  /\ app = NoApp
  /\ cycles = <<>>

BandKeys == {"comfortLowF", "comfortHighF", "dangerLowF", "dangerHighF"}

\* caller overrides of any subset of the four band thresholds
BandOverrides == UNION {[ks -> {55, 90}] : ks \in SUBSET BandKeys}

\* rate maps as a caller may hand them in, rates in hundredths
RateMaps ==
  UNION {[ids -> {[ratePerHour |-> Q(r, 100), r2 |-> QInt(1), direction |-> "rising"] :
                    r \in {-350, 300, 301}}] : ids \in SUBSET {IdA, IdC}}

\* detectAnomalies(zones, weather, rateOfChangeMap, thresholdOverrides)
DetectAnomalies(rateOfChangeMap, thresholdOverrides) ==
  /\ result = NoResult
  /\ result' = [kind |-> "anomalies",
                thresholds |-> MergeThresholds(thresholdOverrides),
                anomalies |->
                  detectAnomalies(zones, rateOfChangeMap, thresholdOverrides, readings, now)]
  /\ UNCHANGED <<now, readings, zones, made, app, cycles>>

Weathers == {NoWeather, [tempF |-> Num(32)], [tempF |-> Null]}

Resistances == UNION {[ids -> {QInt(0), QInt(2)}] : ids \in SUBSET {IdA}}

AnalyzeZones(weather, thermalResistances) ==
  /\ result = NoResult
  /\ result' = analyzeZones(zones, weather, thermalResistances, readings, now)
  /\ UNCHANGED <<now, readings, zones, made, app, cycles>>

AnomalySamples ==
  {Anomaly("info", IdA, "LOW_BATTERY", QInt(15)),
   Anomaly("warning", IdA, "TEMP_LOW", QInt(62)),
   Anomaly("danger", IdC, "TEMP_DANGER_HIGH", QInt(88))}

AnomalyLists == UNION {[1..n -> AnomalySamples] : n \in 0..MaxList}

\* worstLevel(anomalies) on a list in any order
WorstLevel(anomalies) ==
  /\ result = NoResult
  /\ result' = [kind |-> "worst", anomalies |-> anomalies,
                overallStatus |-> worstLevel(anomalies)]
  /\ UNCHANGED <<now, readings, zones, made, app, cycles>>

\* caller overrides of the staleness threshold alone
StaleOverrides == {[staleSensorMinutes |-> m] : m \in {10, 30}}

NextAnomalies ==
  \/ \E ov \in BandOverrides : DetectAnomalies(<<>>, ov)
  \/ \E ov \in StaleOverrides : DetectAnomalies(<<>>, ov)
  \/ \E rm \in RateMaps : DetectAnomalies(rm, <<>>)
  \/ \E w \in Weathers, tr \in Resistances : AnalyzeZones(w, tr)
  \/ \E l \in AnomalyLists : WorstLevel(l)

SpecAnomalies == InitAnomalies /\ [][NextAnomalies]_vars

BandCodes == {"TEMP_DANGER_LOW", "TEMP_LOW", "TEMP_DANGER_HIGH", "TEMP_HIGH"}

\* the band anomalies of the zone at position i in the result at hand
BandAnomaliesOf(i) ==
  {k \in 1..Len(result.anomalies) :
     /\ result.anomalies[k].zoneId = zones[i].zoneId
     /\ result.anomalies[k].code \in BandCodes}

\* C3: in one detectAnomalies call every zone gets at most one temperature
\* band anomaly, whatever the thresholds; a zone below dangerLowF gets
\* exactly one, TEMP_DANGER_LOW at level danger, and no TEMP_LOW.
BandAtMostOne ==
  result.kind = "anomalies" =>
    \A i \in 1..Len(zones) :
      LET temp == Zone_currentTempF(zones[i], readings, now)
          band == BandAnomaliesOf(i)
      IN  /\ Cardinality(band) <= 1
          /\ (temp # QNull /\ temp.n < result.thresholds.dangerLowF * temp.d) =>
               /\ Cardinality(band) = 1
               /\ \A k \in band :
                    /\ result.anomalies[k].code = "TEMP_DANGER_LOW"
                    /\ result.anomalies[k].level = "danger"

\* a zone at 58 F under the default dangerLowF of 60
BandWitness ==
  /\ result.kind = "anomalies"
  /\ result.thresholds.dangerLowF = 60
  /\ \E i \in 1..Len(zones) :
       /\ Zone_currentTempF(zones[i], readings, now) = QInt(58)
       /\ Cardinality(BandAnomaliesOf(i)) = 1

InDangerBand(temp, T) ==
  temp # QNull /\ (temp.n < T.dangerLowF * temp.d \/ temp.n > T.dangerHighF * temp.d)

LevelRank == [info |-> 1, warning |-> 2, danger |-> 3]

\* C5: worstLevel is ok exactly for the empty list and otherwise the highest
\* level present under danger > warning > info, whatever the order of the
\* entries; overallStatus of analyzeZones is that value for its anomalies.
WorstLevelIsHighest ==
  result.kind \in {"worst", "analysis"} =>
    LET levels == {result.anomalies[k].level : k \in 1..Len(result.anomalies)}
    IN  /\ (result.overallStatus = "ok") <=> (result.anomalies = <<>>)
        /\ levels # {} =>
             /\ result.overallStatus \in levels
             /\ \A l \in levels : LevelRank[l] <= LevelRank[result.overallStatus]

\* an analysis whose anomalies hold an info entry ahead of a danger entry
WorstLevelWitness ==
  /\ result.kind = "analysis"
  /\ \E j, k \in 1..Len(result.anomalies) :
       /\ j < k
       /\ result.anomalies[j].level = "info"
       /\ result.anomalies[k].level = "danger"
  /\ result.overallStatus = "danger"

----------------------------------------------------------------------------
(* Specification SpecDeltas: analyzeZones over zone lists in every order    *)
(* and with every way of declaring up to MaxDecl adjacencies                *)

MaxDecl == 3

IdAB == <<"a", ":", ":", "b">>
IdBC == <<"b", ":", ":", "c">>

DeltaZoneIds == {IdA, IdAB, IdC}

\* an adjacency may name a zone of the list or an id that no zone has
AdjTargets == DeltaZoneIds \cup {IdBC}

\* the lists of zones with distinct ids, as sequences of ids
ZoneOrders ==
  {o \in UNION {[1..n -> DeltaZoneIds] : n \in 1..Cardinality(DeltaZoneIds)} :
     \A i, j \in 1..Len(o) : i # j => o[i] # o[j]}

\* up to MaxDecl declarations [owner, target], in the order they are written
DeclLists == UNION {[1..n -> [owner : DeltaZoneIds, target : AdjTargets]] : n \in 0..MaxDecl}

AdjacencyOf(id, decls) ==
  MapSeq(LAMBDA d : d.target, SelectSeq(decls, LAMBDA d : d.owner = id))

DeltaSensorsOf(id) ==
  IF id = IdA THEN <<"s1">> ELSE IF id = IdC THEN <<"s2">> ELSE <<"s1", "s2">>

DeltaNameOf(id) == IF id = IdA THEN "A" ELSE IF id = IdC THEN "C" ELSE "AB"

DeltaZones(order, decls) ==
  MapSeq(LAMBDA id : WithSensors(Zone(id, DeltaNameOf(id), AdjacencyOf(id, decls)),
                                 DeltaSensorsOf(id)),
         order)

DeltaReadings ==
  {[s1 |-> <<Reading("s1", AnalysisNow - MsPerMinute, Num(70), Undefined, Undefined)>>,
    s2 |-> <<Reading("s2", AnalysisNow - MsPerMinute, Num(t), Undefined, Undefined)>>] :
     t \in {68}}
    \cup {[s1 |-> <<Reading("s1", AnalysisNow - MsPerMinute, Num(70), Undefined, Undefined)>>,
           s2 |-> <<>>]}

InitDeltas ==
  /\ now = AnalysisNow
  /\ readings \in DeltaReadings
  /\ zones \in {DeltaZones(o, d) : o \in ZoneOrders, d \in DeclLists}
  /\ made = NoResult
  /\ result = NoResult
  /\ app = NoApp
  /\ cycles = <<>>

NextDeltas == AnalyzeZones(NoWeather, <<>>)

SpecDeltas == InitDeltas /\ [][NextDeltas]_vars

\* the unordered pairs of ids a deltas array has entries for
PairsOf(deltas) == {{deltas[k].zoneAId, deltas[k].zoneBId} : k \in 1..Len(deltas)}

Declares(zs, i, j) ==
  \E k \in 1..Len(zs[i].adjacentZoneIds) : zs[i].adjacentZoneIds[k] = zs[j].zoneId

\* the same zones in another order
Reorderings(zs) ==
  {[i \in 1..Len(zs) |-> zs[p[i]]] :
     p \in {q \in [1..Len(zs) -> 1..Len(zs)] :
              \A i, j \in 1..Len(zs) : i # j => q[i] # q[j]}}

\* C2: the deltas of analyzeZones hold exactly one entry for each unordered
\* pair of zones of the list of which one declares the other adjacent, and
\* the set of pairs is the same for every order of the zone list.
DeltasOnePerPair ==
  result.kind = "analysis" =>
    /\ \A i, j \in 1..Len(zones) :
         (Declares(zones, i, j) \/ Declares(zones, j, i)) =>
           Cardinality({k \in 1..Len(result.deltas) :
                          {result.deltas[k].zoneAId, result.deltas[k].zoneBId}
                            = {zones[i].zoneId, zones[j].zoneId}}) = 1
    /\ \A k \in 1..Len(result.deltas) :
         \E i, j \in 1..Len(zones) :
           /\ Declares(zones, i, j)
           /\ result.deltas[k].zoneAId = zones[i].zoneId
           /\ result.deltas[k].zoneBId = zones[j].zoneId
    /\ \A zs \in Reorderings(zones) :
         PairsOf(analyzeZones(zs, NoWeather, <<>>, readings, now).deltas)
           = PairsOf(result.deltas)

----------------------------------------------------------------------------
(* loadDashboard and App.  app is the App object: startPc (where start()    *)
(* is), pollHandle, stopped (stop() was called), the cached _lastSnapshot   *)
(* and _lastAnalysis and what the status bar shows.  cycles holds one       *)
(* record per _refresh call: pc is the await the call is suspended at, the  *)
(* other fields are the locals of loadDashboard.  A fetch settles with      *)
(* [ok, value]: resolved with value, or rejected.                           *)

MaxCycles == 2

POLL_INTERVAL_MS == 5 * MsPerMinute

Raw(sensorId, timestamp, tempF) ==
  [sensor_id |-> sensorId, timestamp |-> timestamp, temp_f |-> tempF,
   humidity_pct |-> Null, battery_pct |-> Null]

\* what fetchReadings may resolve to; timestamps are ISO strings that
\* new Date parses back to the instant they were formatted from
FetchedBatches ==
  {<<>>,
   <<Raw("s1", AnalysisNow - MsPerMinute, Num(70)), Raw("s2", AnalysisNow - MsPerMinute, Num(58))>>,
   <<Raw("s1", AnalysisNow - MsPerMinute, Num(70)), Raw("s2", AnalysisNow - MsPerMinute, NaN)>>,
   <<Raw("s1", AnalysisNow - 10 * MsPerMinute, Str), Raw("s1", AnalysisNow - MsPerMinute, Num(62))>>,
   <<Raw("s1", AnalysisNow - 10 * MsPerMinute, Num(62)), Raw("s2", AnalysisNow - 10 * MsPerMinute, Null)>>,
   <<Raw("s1", AnalysisNow - 10 * MsPerMinute, Num(62))>>}

Resolved(value) == [ok |-> TRUE, value |-> value]

Rejected == [ok |-> FALSE, value |-> <<>>]

\* fetchLatestWeather resolves to the latest row, or to null when there is none
NoRow == [isNull |-> TRUE, outdoor_temp_f |-> Undefined]

FetchedWeathers == {[isNull |-> FALSE, outdoor_temp_f |-> Num(32)], NoRow}

ReadingsOutcomes == {Resolved(b) : b \in FetchedBatches} \cup {Rejected}

WeatherOutcomes == {Resolved(w) : w \in FetchedWeathers} \cup {Rejected}

NoSnapshot == [kind |-> "none"]

\* the zone graph the composition root hands to App
AppZones ==
  <<WithSensors(Zone(IdA, "A", <<IdC>>), <<"s1">>),
    WithSensors(Zone(IdC, "C", <<IdA>>), <<"s2">>)>>

AppResistances == (IdA :> Q(4, 5))

NewCycle(caller, at) ==
  [pc |-> "fetchReadings", caller |-> caller, loadedAt |-> at, failed |-> <<>>,
   rawReadings |-> <<>>, weather |-> NoWeather, threw |-> FALSE, snapshot |-> NoSnapshot]

InitApp ==
  /\ now = AnalysisNow
  /\ readings = [s \in SensorIds |-> <<>>]
  /\ zones = AppZones
  /\ made = NoResult
  /\ result = NoResult
  /\ app = [kind |-> "app", startPc |-> "idle", pollHandle |-> "null", stopped |-> FALSE,
            lastSnapshot |-> NoSnapshot, lastAnalysis |-> NoResult, statusBar |-> ""]
  /\ cycles = <<>>

\* a continuation of an await is due: _refresh after loadDashboard returned,
\* or start() after its _refresh finished.  Continuations run as microtasks,
\* before the next timer callback, network completion or user event
MicrotasksPending ==
  \/ \E i \in 1..Len(cycles) : cycles[i].pc = "loaded"
  \/ /\ app.startPc = "awaitRefresh"
     /\ \E i \in 1..Len(cycles) : cycles[i].caller = "start" /\ cycles[i].pc = "done"

\* start(): binds the DOM and runs _refresh up to its first await, the
\* fetchReadings call inside loadDashboard
Start ==
  /\ app.startPc = "idle"
  /\ app' = [app EXCEPT !.startPc = "awaitRefresh"]
  /\ cycles' = Append(cycles, NewCycle("start", now))
  /\ UNCHANGED <<now, readings, zones, made, result>>

\* the promise of fetchReadings settles; loadDashboard goes on to call
\* fetchLatestWeather; the first of the two is the catch block without its
\* failed.push('readings')
FetchReadingsSettledUnrecorded(i, outcome) ==
  /\ ~MicrotasksPending
  /\ cycles[i].pc = "fetchReadings"
  /\ cycles' = [cycles EXCEPT ![i] =
       IF outcome.ok
       THEN [@ EXCEPT !.pc = "fetchWeather", !.rawReadings = outcome.value]
       ELSE [@ EXCEPT !.pc = "fetchWeather"]]
  /\ UNCHANGED <<now, readings, zones, made, result, app>>

FetchReadingsSettled(i, outcome) ==
  /\ ~MicrotasksPending
  /\ cycles[i].pc = "fetchReadings"
  /\ cycles' = [cycles EXCEPT ![i] =
       IF outcome.ok
       THEN [@ EXCEPT !.pc = "fetchWeather", !.rawReadings = outcome.value]
       ELSE [@ EXCEPT !.pc = "fetchWeather", !.failed = Append(@, "readings")]]
  /\ UNCHANGED <<now, readings, zones, made, result, app>>

\* rawReadings.map(r => new Reading(...)): throws at the first record the
\* constructor rejects
HydrationThrows(rawReadings) ==
  \E k \in 1..Len(rawReadings) : ReadingThrows(rawReadings[k].temp_f)

\* hydration that leaves the rejected records out
HydrateValid(rawReadings) ==
  MapSeq(LAMBDA r : Reading(r.sensor_id, r.timestamp, r.temp_f, r.humidity_pct, r.battery_pct),
         SelectSeq(rawReadings, LAMBDA r : ~ReadingThrows(r.temp_f)))

Hydrate(rawReadings) ==
  MapSeq(LAMBDA r : Reading(r.sensor_id, r.timestamp, r.temp_f, r.humidity_pct, r.battery_pct),
         rawReadings)

\* the sensors visited by the two nested loops, in order
SensorVisits(zs) == FlatMap(LAMBDA z : z.sensors, zs)

\* the history sensor.clearReadings() leaves; the first of the two is the
\* loop without that call
clearedKept(stored) == stored

cleared(stored) == <<>>

\* the loop that clears and re-ingests every sensor of every zone:
\* the histories and loadedCount after the first n visits
RECURSIVE Distribute(_, _, _, _)
Distribute(visits, n, rs, rd) ==
  IF n = 0 THEN [readings |-> rd, loadedCount |-> 0]
  ELSE LET before == Distribute(visits, n - 1, rs, rd)
           s == visits[n]
           stored == ingestReadings(cleared(before.readings[s]), s, rs)
       IN  [readings |-> [before.readings EXCEPT ![s] = stored],
            loadedCount |-> before.loadedCount + Len(stored)]

\* the promise of fetchLatestWeather settles; loadDashboard runs to its end
\* and either returns the snapshot or throws
FetchWeatherSettled(i, outcome) ==
  /\ ~MicrotasksPending
  /\ cycles[i].pc = "fetchWeather"
  /\ LET c == cycles[i]
         failed == IF outcome.ok THEN c.failed ELSE Append(c.failed, "weather")
         weather == IF outcome.ok /\ ~outcome.value.isNull
                    THEN [tempF |-> outcome.value.outdoor_temp_f]
                    ELSE NoWeather
     IN  IF HydrationThrows(c.rawReadings)
         THEN /\ cycles' = [cycles EXCEPT ![i] =
                   [c EXCEPT !.pc = "loaded", !.failed = failed, !.weather = weather,
                             !.threw = TRUE]]
              /\ UNCHANGED readings
         ELSE LET visits == SensorVisits(zones)
                  done == Distribute(visits, Len(visits), Hydrate(c.rawReadings), readings)
              IN  /\ readings' = done.readings
                  /\ cycles' = [cycles EXCEPT ![i] =
                       [c EXCEPT !.pc = "loaded", !.failed = failed, !.weather = weather,
                                 !.snapshot = [kind |-> "snapshot", weather |-> weather,
                                               loadedAt |-> c.loadedAt,
                                               stats |-> [total |-> Len(c.rawReadings),
                                                          loaded |-> done.loadedCount,
                                                          failed |-> failed]]]]
  /\ UNCHANGED <<now, zones, made, result, app>>

\* _refresh resumes after await loadDashboard: caches the snapshot, analyses
\* and renders, or reports the error it caught
RefreshResumes(i) ==
  /\ cycles[i].pc = "loaded"
  /\ app' = IF cycles[i].threw
            THEN [app EXCEPT !.statusBar = "error"]
            ELSE [app EXCEPT !.lastSnapshot = cycles[i].snapshot,
                             !.lastAnalysis = analyzeZones(zones, cycles[i].snapshot.weather,
                                                           AppResistances, readings, now),
                             !.statusBar = "rendered"]
  /\ cycles' = [cycles EXCEPT ![i] =
       [NewCycle(@.caller, @.loadedAt) EXCEPT !.pc = "done", !.threw = cycles[i].threw]]
  /\ UNCHANGED <<now, readings, zones, made, result>>

\* start() resumes after await this._refresh() and schedules the interval
StartSchedules ==
  /\ app.startPc = "awaitRefresh"
  /\ \E i \in 1..Len(cycles) : cycles[i].caller = "start" /\ cycles[i].pc = "done"
  /\ app' = [app EXCEPT !.startPc = "done", !.pollHandle = "timer"]
  /\ UNCHANGED <<now, readings, zones, made, result, cycles>>

\* the interval fires: () => this._refresh()
PollFires ==
  /\ ~MicrotasksPending
  /\ app.pollHandle = "timer"
  /\ Len(cycles) < MaxCycles
  /\ now' = now + POLL_INTERVAL_MS
  /\ cycles' = Append(cycles, NewCycle("poll", now'))
  /\ UNCHANGED <<readings, zones, made, result, app>>

\* stop(): cancels the interval if there is a handle
Stop ==
  /\ ~MicrotasksPending
  /\ app.startPc # "idle"
  /\ ~app.stopped
  /\ app' = [app EXCEPT !.pollHandle = "null", !.stopped = TRUE]
  /\ UNCHANGED <<now, readings, zones, made, result, cycles>>

NextApp ==
  \/ Start
  \/ \E i \in 1..Len(cycles), o \in ReadingsOutcomes : FetchReadingsSettled(i, o)
  \/ \E i \in 1..Len(cycles), o \in WeatherOutcomes : FetchWeatherSettled(i, o)
  \/ \E i \in 1..Len(cycles) : RefreshResumes(i)
  \/ StartSchedules
  \/ PollFires
  \/ Stop

SpecApp == InitApp /\ [][NextApp]_vars

\* the count loadDashboard would report had it ingested rs into every sensor
LoadedCountOf(rs) ==
  LET visits == SensorVisits(zones)
  IN  Distribute(visits, Len(visits), rs, readings).loadedCount

\* C10: a raw record whose temperature is not a number (or is NaN) is a
\* failure of that record alone: loadDashboard returns its snapshot, the
\* valid records of the batch are in their sensors and the loaded count is
\* that of the valid records.
HydrationPerRecord ==
  \A i \in 1..Len(cycles) :
    (cycles[i].pc = "loaded" /\ HydrationThrows(cycles[i].rawReadings)) =>
      /\ ~cycles[i].threw
      /\ cycles[i].snapshot # NoSnapshot
      /\ cycles[i].snapshot.stats.loaded = LoadedCountOf(HydrateValid(cycles[i].rawReadings))

\* the raw records of a fetch that a stored reading may come from
DeliveredBy(rawReadings, r) ==
  \E j \in 1..Len(rawReadings) :
    /\ rawReadings[j].sensor_id = r.sensorId
    /\ rawReadings[j].timestamp = r.timestamp
    /\ rawReadings[j].temp_f = r.tempF

\* C11: whenever a loadDashboard call runs to its return, every sensor's
\* history holds only readings that this call's fetch delivered, in
\* ascending order more than 1000 ms apart, and holds one whenever the fetch
\* delivered one for the sensor; after a failed readings fetch every history
\* is empty.
RefreshReplacesHistory ==
  [][\A i \in 1..Len(cycles) :
       (/\ Len(cycles') = Len(cycles)
        /\ cycles[i].pc = "fetchWeather"
        /\ cycles'[i].pc = "loaded"
        /\ ~cycles'[i].threw) =>
         \A s \in SensorIds :
           /\ \A k \in 1..Len(readings'[s]) :
                DeliveredBy(cycles[i].rawReadings, readings'[s][k])
           /\ \A k \in 2..Len(readings'[s]) :
                readings'[s][k].timestamp - readings'[s][k - 1].timestamp > 1000
           /\ (\E j \in 1..Len(cycles[i].rawReadings) :
                 cycles[i].rawReadings[j].sensor_id = s) => readings'[s] # <<>>
           /\ "readings" \in {cycles[i].failed[k] : k \in 1..Len(cycles[i].failed)}
                => readings'[s] = <<>>]_vars

\* a poll-driven loadDashboard has returned after its readings fetch failed,
\* the refresh before it had loaded readings, and every history is empty
RefreshWitness ==
  /\ Len(cycles) = 2
  /\ cycles[2].pc = "loaded"
  /\ ~cycles[2].threw
  /\ cycles[2].snapshot.stats.failed # <<>>
  /\ cycles[2].snapshot.stats.failed[1] = "readings"
  /\ app.lastSnapshot # NoSnapshot
  /\ app.lastSnapshot.stats.loaded = 2
  /\ \A s \in SensorIds : readings[s] = <<>>

----------------------------------------------------------------------------
(* Specification SpecCalls: analyzeZones called repeatedly on one snapshot  *)
(* while the wall clock advances; result holds the calls made so far, each  *)
(* with its arguments, the instant it ran at and what it returned           *)

MaxCalls == 2

MaxWaitMinutes == 20

WaitMinutes == {5, 15}

CallHistoriesOf(s) ==
  {<<>>, <<Reading(s, AnalysisNow - MsPerMinute, Num(70), Undefined, Undefined)>>}
    \cup (IF s = "s1" THEN {}
          ELSE {<<Reading(s, AnalysisNow - 10 * MsPerMinute, Num(62), Undefined, Undefined),
                  Reading(s, AnalysisNow - MsPerMinute, Num(62), Undefined, Undefined)>>})

CallWeathers == {NoWeather, [tempF |-> Num(32)]}

\* per-zone overrides as a caller may hand them in: none, zero, negative,
\* positive
CallResistances == UNION {[ids -> {QInt(0), QInt(-2), QInt(2)}] : ids \in SUBSET {IdA}}

InitCalls ==
  /\ now = AnalysisNow
  /\ readings \in {rd \in [SensorIds -> UNION {CallHistoriesOf(s) : s \in SensorIds}] :
                     \A s \in SensorIds : rd[s] \in CallHistoriesOf(s)}
  /\ zones \in AnomalyZoneLists
  /\ made = NoResult
  /\ result = [kind |-> "calls", calls |-> <<>>]
  /\ app = NoApp
  /\ cycles = <<>>

\* the wall clock that new Date() reads moves on between two calls
TimePasses(minutes) ==
  /\ now + minutes * MsPerMinute <= AnalysisNow + MaxWaitMinutes * MsPerMinute
  /\ now' = now + minutes * MsPerMinute
  /\ UNCHANGED <<readings, zones, made, result, app, cycles>>

\* analyzeZones({ zones, weather, thermalResistances }): reads the zones and
\* their sensors through getters only
AnalyzeZonesCall(weather, thermalResistances) ==
  /\ Len(result.calls) < MaxCalls
  /\ result' = [result EXCEPT !.calls =
       Append(@, [weather |-> weather, thermalResistances |-> thermalResistances,
                  at |-> now,
                  out |-> analyzeZones(zones, weather, thermalResistances, readings, now)])]
  /\ UNCHANGED <<now, readings, zones, made, app, cycles>>

NextCalls ==
  \/ \E w \in CallWeathers, tr \in CallResistances : AnalyzeZonesCall(w, tr)
  \/ \E m \in WaitMinutes : TimePasses(m)

SpecCalls == InitCalls /\ [][NextCalls]_vars

\* C12: two analyzeZones calls given the same zones with the same sensor
\* histories, the same weather and the same thermalResistances return equal
\* results, whatever the instants the two calls run at.
AnalyzeZonesPure ==
  \A i, j \in 1..Len(result.calls) :
    (/\ result.calls[i].weather = result.calls[j].weather
     /\ result.calls[i].thermalResistances = result.calls[j].thermalResistances) =>
      result.calls[i].out = result.calls[j].out

\* C13: in every analyzeZones result, a zone with a known current
\* temperature, under a known outdoor temperature, whose override of the
\* thermal resistance is zero or negative has heatLossBtuHr 0.
HeatLossZeroForNonPositiveR ==
  \A i \in 1..Len(result.calls) :
    LET c == result.calls[i]
    IN  \A k \in 1..Len(zones) :
          (/\ Zone_currentTempF(zones[k], readings, c.at) # QNull
           /\ c.weather.tempF.type = "number"
           /\ zones[k].zoneId \in DOMAIN c.thermalResistances
           /\ c.thermalResistances[zones[k].zoneId].n <= 0) =>
            c.out.zoneAnalyses[zones[k].zoneId].heatLossBtuHr = QInt(0)

\* the zone list with every declaration of an id that no zone has taken out
WithoutDangling(zs) ==
  MapSeq(LAMBDA z : [z EXCEPT !.adjacentZoneIds =
                       SelectSeq(@, LAMBDA id : \E k \in 1..Len(zs) : zs[k].zoneId = id)],
         zs)

\* C14: a declared adjacency to an id that no zone of the list has yields
\* no delta entry mentioning that id, and the deltas are those that
\* analyzeZones returns for the same zones without such declarations.
DanglingIsIgnored ==
  result.kind = "analysis" =>
    /\ \A k \in 1..Len(result.deltas) :
         /\ \E i \in 1..Len(zones) : zones[i].zoneId = result.deltas[k].zoneAId
         /\ \E i \in 1..Len(zones) : zones[i].zoneId = result.deltas[k].zoneBId
    /\ result.deltas
         = analyzeZones(WithoutDangling(zones), NoWeather, <<>>, readings, now).deltas

\* the positions of the anomalies of the given code that the result at hand
\* holds for the zone at position i
CodeAnomaliesOf(i, code) ==
  {k \in 1..Len(result.anomalies) :
     /\ result.anomalies[k].zoneId = zones[i].zoneId
     /\ result.anomalies[k].code = code}

\* the sensors of the zone at position i whose last reading is at most
\* the given number of minutes old
LiveSensorsOf(i, minutes) ==
  {s \in {zones[i].sensors[k] : k \in 1..Len(zones[i].sensors)} :
     /\ readings[s] # <<>>
     /\ now - readings[s][Len(readings[s])].timestamp <= minutes * 60 * 1000}

\* C15: detectAnomalies reports ALL_SENSORS_OFFLINE, once and at level
\* warning, for exactly the zones that have at least one sensor and none
\* online; a zone without sensors never gets it, and no zone gets it
\* together with PARTIAL_COVERAGE.
AllOfflineOnlyWithSensors ==
  result.kind \in {"anomalies", "analysis"} =>
    \A i \in 1..Len(zones) :
      LET all == CodeAnomaliesOf(i, "ALL_SENSORS_OFFLINE")
      IN  /\ (all # {}) <=> (Len(zones[i].sensors) > 0 /\ LiveSensorsOf(i, 15) = {})
          /\ Cardinality(all) <= 1
          /\ \A k \in all : result.anomalies[k].level = "warning"
          /\ all = {} \/ CodeAnomaliesOf(i, "PARTIAL_COVERAGE") = {}

\* a list of a zone without sensors and a zone whose two sensors are one
\* without readings and one stale: only the second is reported
AllOfflineWitness ==
  /\ result.kind = "anomalies"
  /\ Len(zones) = 2
  /\ Len(zones[1].sensors) = 2
  /\ Len(zones[2].sensors) = 0
  /\ \E s \in SensorIds : Sensor_status(readings[s], now) = "stale"
  /\ \E s \in SensorIds : Sensor_status(readings[s], now) = "offline"
  /\ CodeAnomaliesOf(1, "ALL_SENSORS_OFFLINE") # {}
  /\ CodeAnomaliesOf(2, "ALL_SENSORS_OFFLINE") = {}

\* C16: PARTIAL_COVERAGE is reported at level info, only for a zone of which
\* some but not all sensors are not reporting live data, and the offline
\* count it names is the number of those sensors, at least 1 and less than
\* the zone's sensorCount.
PartialCoverageCountsOffline ==
  result.kind \in {"anomalies", "analysis"} =>
    \A i \in 1..Len(zones) :
      \A k \in CodeAnomaliesOf(i, "PARTIAL_COVERAGE") :
        LET notLive == Len(zones[i].sensors) - Cardinality(LiveSensorsOf(i, 15))
        IN  /\ result.anomalies[k].level = "info"
            /\ notLive >= 1
            /\ notLive < Len(zones[i].sensors)
            /\ result.anomalies[k].offline = notLive

\* C18: in a detectAnomalies call the sensors that count as online are those
\* whose latest reading is at most staleSensorMinutes old, the threshold of
\* that call: they decide the coverage anomalies, they alone raise
\* LOW_BATTERY, and a zone has a temperature to judge exactly when it has one.
StaleOverrideHonoured ==
  result.kind = "anomalies" =>
    \A i \in 1..Len(zones) :
      LET live == LiveSensorsOf(i, result.thresholds.staleSensorMinutes)
          count == Len(zones[i].sensors)
          lowBattery == {s \in live :
                           LET b == readings[s][Len(readings[s])].batteryPct
                           IN  b # Null /\ b.v < 20}
      IN  /\ (CodeAnomaliesOf(i, "ALL_SENSORS_OFFLINE") # {}) <=> (count > 0 /\ live = {})
          /\ (CodeAnomaliesOf(i, "PARTIAL_COVERAGE") # {})
               <=> (live # {} /\ Cardinality(live) < count)
          /\ Cardinality(CodeAnomaliesOf(i, "LOW_BATTERY")) = Cardinality(lowBattery)
          /\ (BandAnomaliesOf(i) # {}) => live # {}
          /\ (live # {} /\ \A s \in live :
                 readings[s][Len(readings[s])].tempF.v < result.thresholds.dangerLowF)
               => BandAnomaliesOf(i) # {}

\* C19: in an analyzeZones result, a zone has a RAPID_CHANGE anomaly exactly
\* when its entry of zoneAnalyses has a rateOfChange whose ratePerHour is
\* above 3 or below -3 (the default maxRatePerHour), it has one at most, and
\* the anomaly's value is that ratePerHour.
RatesAgree ==
  result.kind = "analysis" =>
    \A i \in 1..Len(zones) :
      LET rate == result.zoneAnalyses[zones[i].zoneId].rateOfChange
          rapid == CodeAnomaliesOf(i, "RAPID_CHANGE")
      IN  /\ (rapid # {}) <=>
               (/\ rate.direction # "null"
                /\ (rate.ratePerHour.n > 3 * rate.ratePerHour.d
                      \/ rate.ratePerHour.n < (-3) * rate.ratePerHour.d))
          /\ Cardinality(rapid) <= 1
          /\ \A k \in rapid : result.anomalies[k].value = rate.ratePerHour

\* a zone that is falling fast next to a zone without a rate
RatesWitness ==
  /\ result.kind = "analysis"
  /\ Len(zones) = 2
  /\ result.zoneAnalyses[zones[1].zoneId].rateOfChange.direction = "null"
  /\ result.zoneAnalyses[zones[2].zoneId].rateOfChange.direction = "falling"
  /\ CodeAnomaliesOf(1, "RAPID_CHANGE") = {}
  /\ \E k \in CodeAnomaliesOf(2, "RAPID_CHANGE") : result.anomalies[k].value.n < 0

----------------------------------------------------------------------------
(* Specification SpecUniformity: calcUniformityScore over two zones of one  *)
(* sensor each                                                              *)

UniformityTempsF == {68, 69, 70, 71, 72, 74}

UniformityHistoriesOf(s) ==
  {<<>>} \cup {<<Reading(s, AnalysisNow - MsPerMinute, Num(t), Undefined, Undefined)>> :
                 t \in UniformityTempsF}

TolerancesF == {DEFAULT_TOLERANCE_F, 5}

InitUniformity ==
  /\ now = AnalysisNow
  /\ readings \in [SensorIds -> UNION {UniformityHistoriesOf(s) : s \in SensorIds}]
  /\ \A s \in SensorIds : readings[s] \in UniformityHistoriesOf(s)
  /\ zones = AppZones
  /\ made = NoResult
  /\ result = NoResult
  /\ app = NoApp
  /\ cycles = <<>>

\* calcUniformityScore(zones, toleranceF)
CalcUniformityScore(toleranceF) ==
  /\ result = NoResult
  /\ result' = [kind |-> "uniformity", toleranceF |-> toleranceF,
                score |-> calcUniformityScore(zones, QInt(toleranceF), readings, now)]
  /\ UNCHANGED <<now, readings, zones, made, app, cycles>>

NextUniformity == \E tol \in TolerancesF : CalcUniformityScore(tol)

SpecUniformity == InitUniformity /\ [][NextUniformity]_vars

\* C20: when at least two zones report a temperature, calcUniformityScore
\* is 0 whenever the largest of them exceeds the smallest by the tolerance
\* or more, and 1 when they are all the same.
UniformityBySpread ==
  result.kind = "uniformity" =>
    LET temps == {readings[s][1].tempF.v : s \in {x \in SensorIds : readings[x] # <<>>}}
    IN  (\A s \in SensorIds : readings[s] # <<>>) =>
          /\ (\E a, b \in temps : a - b >= result.toleranceF) => result.score = QInt(0)
          /\ (Cardinality(temps) = 1) => result.score = QInt(1)

----------------------------------------------------------------------------
(* Temperatures that are not whole numbers.  In the specifications above    *)
(* every temperature is a whole number and no zone has more than two        *)
(* sensors, so the sums and quotients of the getters are exact in binary64  *)
(* and the fractions stand for them.  Here a number is the binary64 value   *)
(* itself: [m, e] with the value m * 2^e and m the 53-bit significand, a    *)
(* whole number written in base 2^15 as a sequence of digits, most          *)
(* significant first and without leading zeros; zero has no digits.  The    *)
(* operations round to nearest, ties to even, as the hardware does.         *)

F64Precision == 53

F64Zero == [m |-> <<>>, e |-> 0]

\* null where a number was expected
F64Null == [m |-> <<>>, e |-> -1]

Zeros(k) == [i \in 1..k |-> 0]

RECURSIVE StripZeros(_)
StripZeros(digits) ==
  IF digits = <<>> \/ Head(digits) # 0 THEN digits ELSE StripZeros(Tail(digits))

PadLeft(digits, n) == Zeros(n - Len(digits)) \o digits

RECURSIVE BigOfNat(_)
BigOfNat(n) == IF n = 0 THEN <<>> ELSE Append(BigOfNat(n \div 32768), n % 32768)

\* a + b + carry for two digit strings of one length
RECURSIVE BigAdd(_, _, _)
BigAdd(a, b, carry) ==
  IF a = <<>> THEN (IF carry > 0 THEN <<carry>> ELSE <<>>)
  ELSE LET n == Len(a)
           t == a[n] + b[n] + carry
       IN  Append(BigAdd(SubSeq(a, 1, n - 1), SubSeq(b, 1, n - 1), t \div 32768), t % 32768)

\* a - b - borrow for two digit strings of one length, a not below b
RECURSIVE BigSub(_, _, _)
BigSub(a, b, borrow) ==
  IF a = <<>> THEN <<>>
  ELSE LET n == Len(a)
           t == a[n] - b[n] - borrow
       IN  Append(BigSub(SubSeq(a, 1, n - 1), SubSeq(b, 1, n - 1), IF t < 0 THEN 1 ELSE 0),
                  IF t < 0 THEN t + 32768 ELSE t)

\* a * c + carry for a factor c below 2^15
RECURSIVE BigMulSmall(_, _, _)
BigMulSmall(a, c, carry) ==
  IF a = <<>> THEN (IF carry > 0 THEN <<carry>> ELSE <<>>)
  ELSE LET n == Len(a)
           t == a[n] * c + carry
       IN  Append(BigMulSmall(SubSeq(a, 1, n - 1), c, t \div 32768), t % 32768)

\* a divided by a divisor n up to 2^15: the quotient and the remainder
RECURSIVE BigDivSmall(_, _)
BigDivSmall(a, n) ==
  IF a = <<>> THEN [q |-> <<>>, r |-> 0]
  ELSE LET before == BigDivSmall(SubSeq(a, 1, Len(a) - 1), n)
           cur == before.r * 32768 + a[Len(a)]
       IN  [q |-> Append(before.q, cur \div n), r |-> cur % n]

\* a < b for digit strings of one length
RECURSIVE BigLess(_, _)
BigLess(a, b) ==
  IF a = <<>> THEN FALSE
  ELSE IF Head(a) # Head(b) THEN Head(a) < Head(b)
  ELSE BigLess(Tail(a), Tail(b))

\* a * 2^k
BigShiftLeft(a, k) == BigMulSmall(a, 2^(k % 15), 0) \o Zeros(k \div 15)

\* the number of bits of a
BitLength(a) ==
  IF a = <<>> THEN 0
  ELSE (Len(a) - 1) * 15 + (CHOOSE k \in 1..15 : 2^(k - 1) <= a[1] /\ a[1] < 2^k)

\* the binary64 nearest to a * 2^e (plus a nonzero rest below the last bit
\* of a when sticky), for a of at most 53 + 15 bits
F64Round(a, e, sticky) ==
  LET len == BitLength(a)
  IN  IF len = 0 THEN F64Zero
      ELSE IF len <= F64Precision
      THEN [m |-> BigShiftLeft(a, F64Precision - len), e |-> e - (F64Precision - len)]
      ELSE LET drop == len - F64Precision
               d == BigDivSmall(a, 2^drop)
               kept == StripZeros(d.q)
               half == 2^(drop - 1)
               up == \/ d.r > half
                     \/ d.r = half /\ (sticky \/ kept[Len(kept)] % 2 = 1)
               inc == IF up THEN BigAdd(kept, PadLeft(<<1>>, Len(kept)), 0) ELSE kept
           IN  IF BitLength(inc) > F64Precision
               THEN [m |-> StripZeros(BigDivSmall(inc, 2).q), e |-> e + drop + 1]
               ELSE [m |-> inc, e |-> e + drop]

F64FromNat(n) == F64Round(BigOfNat(n), 0, FALSE)

\* x + y for x, y >= 0 whose exponents differ by less than 12
F64Add(x, y) ==
  IF x.m = <<>> THEN y
  ELSE IF y.m = <<>> THEN x
  ELSE LET e == IF x.e < y.e THEN x.e ELSE y.e
           xa == BigShiftLeft(x.m, x.e - e)
           ya == BigShiftLeft(y.m, y.e - e)
           n == IF Len(xa) > Len(ya) THEN Len(xa) ELSE Len(ya)
       IN  F64Round(BigAdd(PadLeft(xa, n), PadLeft(ya, n), 0), e, FALSE)

\* x <= y for x, y >= 0
F64Leq(x, y) ==
  IF x.m = <<>> THEN TRUE
  ELSE IF y.m = <<>> THEN FALSE
  ELSE x.e < y.e \/ (x.e = y.e /\ ~BigLess(y.m, x.m))

\* x - y for x >= y >= 0 whose exponents differ by less than 12
F64Sub(x, y) ==
  IF y.m = <<>> THEN x
  ELSE LET e == IF x.e < y.e THEN x.e ELSE y.e
           xa == BigShiftLeft(x.m, x.e - e)
           ya == BigShiftLeft(y.m, y.e - e)
       IN  F64Round(StripZeros(BigSub(xa, PadLeft(ya, Len(xa)), 0)), e, FALSE)

\* x / n for x >= 0 and a whole n in 1..128: the quotient is carried to
\* eight bits below the significand before it is rounded
F64DivNat(x, n) ==
  LET d == BigDivSmall(BigShiftLeft(x.m, 8), n)
  IN  F64Round(StripZeros(d.q), x.e - 8, d.r # 0)

\* Math.round(x * 100) / 100 for a value of k hundredths
F64OfHundredths(k) == F64DivNat(F64FromNat(k), 100)

\* temps.reduce((sum, t) => sum + t, 0)
RECURSIVE F64Sum(_)
F64Sum(temps) ==
  IF temps = <<>> THEN F64Zero
  ELSE F64Add(F64Sum(SubSeq(temps, 1, Len(temps) - 1)), temps[Len(temps)])

RECURSIVE F64Min(_)
F64Min(temps) ==
  IF Len(temps) = 1 THEN temps[1]
  ELSE LET m == F64Min(Tail(temps)) IN IF F64Leq(m, temps[1]) THEN m ELSE temps[1]

RECURSIVE F64Max(_)
F64Max(temps) ==
  IF Len(temps) = 1 THEN temps[1]
  ELSE LET m == F64Max(Tail(temps)) IN IF F64Leq(temps[1], m) THEN m ELSE temps[1]

\* the temps array of the temperature getters of Zone, as binary64 values
SensorF64sOf(z, rd, ref) ==
  LET all == MapSeq(LAMBDA s : Sensor_currentTempF(rd[s], ref), z.sensors)
      present == SelectSeq(all, LAMBDA t : t # Null)
  IN  MapSeq(LAMBDA t : t.v, present)

Zone_currentTempF64(z, rd, ref) ==
  LET temps == SensorF64sOf(z, rd, ref)
  IN  IF Len(temps) = 0 THEN F64Null ELSE F64DivNat(F64Sum(temps), Len(temps))

minTempF64(z, rd, ref) ==
  LET temps == SensorF64sOf(z, rd, ref)
  IN  IF Len(temps) > 0 THEN F64Min(temps) ELSE F64Null

maxTempF64(z, rd, ref) ==
  LET temps == SensorF64sOf(z, rd, ref)
  IN  IF Len(temps) > 0 THEN F64Max(temps) ELSE F64Null

tempSpreadF64(z, rd, ref) ==
  LET min == minTempF64(z, rd, ref)
      max == maxTempF64(z, rd, ref)
  IN  IF min = F64Null \/ max = F64Null THEN F64Null ELSE F64Sub(max, min)

----------------------------------------------------------------------------
(* Specification SpecZoneTemps: a zone of three sensors, next to a zone     *)
(* without sensors, whose sensors are handed readings in hundredths of a    *)
(* degree, as the adapters deliver them                                     *)

ZoneTempSensorIds == {"s1", "s2", "s3"}

HundredthsF == {6000, 6005, 7010}

F64Temp(k) == [type |-> "number", cls |-> "finite", v |-> F64OfHundredths(k)]

\* a batch for sensor s: one reading, 20 minutes old or 1 minute old
ZoneTempBatches(s) ==
  {<<Reading(s, AnalysisNow - 20 * MsPerMinute, F64Temp(7010), Undefined, Undefined)>>}
    \cup {<<Reading(s, AnalysisNow - MsPerMinute, F64Temp(k), Undefined, Undefined)>> :
            k \in HundredthsF}

InitZoneTemps ==
  /\ now = AnalysisNow
  /\ readings = [s \in ZoneTempSensorIds |-> <<>>]
  /\ zones = <<WithSensors(Zone(IdA, "A", <<IdC>>), <<"s1", "s2", "s3">>),
               Zone(IdC, "C", <<IdA>>)>>
  /\ made = NoResult
  /\ result = NoResult
  /\ app = NoApp
  /\ cycles = <<>>

NextZoneTemps ==
  \/ \E s \in ZoneTempSensorIds : \E batch \in ZoneTempBatches(s) : IngestReadings(s, batch)
  \/ \E s \in ZoneTempSensorIds : ClearReadings(s)

SpecZoneTemps == InitZoneTemps /\ [][NextZoneTemps]_vars

\* C17: a zone's currentTempF is null exactly when its coverageStatus is
\* uncovered, and then minTempF, maxTempF and tempSpreadF are null as well,
\* for a zone without sensors as for one whose sensors are all offline or
\* stale; otherwise currentTempF, the mean of the online sensors'
\* temperatures, is at least minTempF and at most maxTempF.
ZoneAggregatesAgree ==
  \A i \in 1..Len(zones) :
    LET cs == coverageStatus(zones[i], readings, now)
        cur == Zone_currentTempF64(zones[i], readings, now)
        min == minTempF64(zones[i], readings, now)
        max == maxTempF64(zones[i], readings, now)
    IN  /\ (cur = F64Null) <=> (cs = "uncovered")
        /\ (cs = "uncovered") =>
             /\ min = F64Null
             /\ max = F64Null
             /\ tempSpreadF64(zones[i], readings, now) = F64Null
        /\ (cs # "uncovered") => (F64Leq(min, cur) /\ F64Leq(cur, max))

\* the sensors of the zone at position i that are online
OnlineSensorsOf(i) ==
  {s \in {zones[i].sensors[k] : k \in 1..Len(zones[i].sensors)} :
     Sensor_status(readings[s], now) = "online"}

\* C17 as amended: the same, except that currentTempF is the binary64 sum of
\* the online sensors' temperatures divided by their count, which is at
\* least minTempF and at most maxTempF when one or two sensors are online
\* and may miss that interval by a rounding error when more are.
ZoneAggregatesAgreeRounded ==
  \A i \in 1..Len(zones) :
    LET cs == coverageStatus(zones[i], readings, now)
        cur == Zone_currentTempF64(zones[i], readings, now)
        min == minTempF64(zones[i], readings, now)
        max == maxTempF64(zones[i], readings, now)
    IN  /\ (cur = F64Null) <=> (cs = "uncovered")
        /\ (cs = "uncovered") =>
             /\ min = F64Null
             /\ max = F64Null
             /\ tempSpreadF64(zones[i], readings, now) = F64Null
        /\ (cs # "uncovered") =>
             /\ cur # F64Null /\ min # F64Null /\ max # F64Null
             /\ Cardinality(OnlineSensorsOf(i)) <= 2 => (F64Leq(min, cur) /\ F64Leq(cur, max))

\* a zone without sensors next to a zone with one stale sensor and two
\* online sensors at different temperatures: the mean is strictly between
ZoneAggregatesWitness ==
  /\ Len(zones[2].sensors) = 0
  /\ Zone_currentTempF64(zones[2], readings, now) = F64Null
  /\ Cardinality(OnlineSensorsOf(1)) = 2
  /\ \E s \in ZoneTempSensorIds : Sensor_status(readings[s], now) = "stale"
  /\ LET cur == Zone_currentTempF64(zones[1], readings, now)
         min == minTempF64(zones[1], readings, now)
         max == maxTempF64(zones[1], readings, now)
     IN  /\ F64Leq(min, cur) /\ ~F64Leq(cur, min)
         /\ F64Leq(cur, max) /\ ~F64Leq(max, cur)

----------------------------------------------------------------------------
(* Whole-house spread and uniformity score as analyzeZones reports them *)

\* how many of the zones have a current temperature at the instant ref
ZonesWithTemp(ref) ==
  Cardinality({i \in 1..Len(zones) : Zone_currentTempF(zones[i], readings, ref) # QNull})

QLeq(a, b) == ~QLt(b, a)

\* C21: calcWholeHouseSpread and calcUniformityScore return null exactly
\* when fewer than two zones have a current temperature, otherwise a spread
\* that is not negative and a score from 0 to 1, and analyzeZones reports
\* both unchanged as houseSpread and uniformityScore (stated of the call
\* made last, which every call once was).
InsufficientDataIsNull ==
  result.calls # <<>> =>
    LET c == result.calls[Len(result.calls)]
        few == ZonesWithTemp(c.at) < 2
        spread == calcWholeHouseSpread(zones, readings, c.at)
        score == calcUniformityScore(zones, QInt(DEFAULT_TOLERANCE_F), readings, c.at)
    IN  /\ (spread = NoSpread) <=> few
        /\ (score = QNull) <=> few
        /\ ~few => /\ spread.spreadF # QNull
                   /\ QLeq(QInt(0), spread.spreadF)
                   /\ QLeq(QInt(0), score) /\ QLeq(score, QInt(1))
        /\ c.out.houseSpread = spread
        /\ c.out.uniformityScore = score

\* one call with two zones reporting different temperatures, and a later
\* call on the same zones once their readings have gone stale
InsufficientDataWitness ==
  /\ Len(result.calls) = 2
  /\ ZonesWithTemp(result.calls[1].at) = 2
  /\ QLt(QInt(0), result.calls[1].out.houseSpread.spreadF)
  /\ result.calls[1].out.uniformityScore # QNull
  /\ ZonesWithTemp(result.calls[2].at) < 2
  /\ \E s \in SensorIds : readings[s] # <<>>
  /\ result.calls[2].out.houseSpread = NoSpread
  /\ result.calls[2].out.uniformityScore = QNull

----------------------------------------------------------------------------
(* Specification SpecRates: calcRateOfChange called repeatedly on one       *)
(* series while the wall clock advances; made holds the series, result the  *)
(* calls made so far                                                        *)

MaxSeries == 3

SeriesMinutes == {40, 65, 80, 95}

SeriesTempsF == {68, 70}

WindowsMinutes == {30, 10}

\* the points at the chosen minutes, in ascending order
RECURSIVE SeriesAt(_, _)
SeriesAt(minutes, tempOf) ==
  IF minutes = {} THEN <<>>
  ELSE LET m == CHOOSE x \in minutes : \A y \in minutes : y <= x
       IN  Append(SeriesAt(minutes \ {m}, tempOf),
                  [timestamp |-> m * MsPerMinute, tempF |-> QInt(tempOf[m]), sensorCount |-> 1])

\* time-ordered series as getTimeSeries returns them
SeriesInputs ==
  UNION {{SeriesAt(ms, tempOf) : tempOf \in [ms -> SeriesTempsF]} :
           ms \in {x \in SUBSET SeriesMinutes : Cardinality(x) <= MaxSeries}}

InitRates ==
  /\ now = AnalysisNow
  /\ readings = [s \in SensorIds |-> <<>>]
  /\ zones = <<>>
  /\ made \in {[kind |-> "series", points |-> ser] : ser \in SeriesInputs}
  /\ result = [kind |-> "rates", calls |-> <<>>]
  /\ app = NoApp
  /\ cycles = <<>>

\* calcRateOfChange(series, windowMinutes)
CalcRateOfChangeCall(windowMinutes) ==
  /\ Len(result.calls) < MaxCalls
  /\ result' = [result EXCEPT !.calls =
       Append(@, [windowMinutes |-> windowMinutes, at |-> now,
                  out |-> calcRateOfChange(made.points, windowMinutes)])]
  /\ UNCHANGED <<now, readings, zones, made, app, cycles>>

NextRates ==
  \/ \E w \in WindowsMinutes : CalcRateOfChangeCall(w)
  \/ \E m \in WaitMinutes : TimePasses(m)

SpecRates == InitRates /\ [][NextRates]_vars

\* the points of the series not older than windowMinutes before its last one
PointsInWindow(series, windowMinutes) ==
  {i \in 1..Len(series) :
     series[i].timestamp >= series[Len(series)].timestamp - windowMinutes * MsPerMinute}

\* C22: calcRateOfChange returns null for every series of fewer than two
\* points and for every series with fewer than two points at or after its
\* own last timestamp minus windowMinutes, and it returns the same for the
\* same series and window at whatever time it is called.
RateWindowFromLastPoint ==
  \A i \in 1..Len(result.calls) :
    LET c == result.calls[i]
    IN  /\ Len(made.points) < 2 => c.out = NoRate
        /\ (Len(made.points) >= 2
              /\ Cardinality(PointsInWindow(made.points, c.windowMinutes)) < 2)
             => c.out = NoRate
        /\ \A j \in 1..Len(result.calls) :
             result.calls[j].windowMinutes = c.windowMinutes => result.calls[j].out = c.out

\* a series whose last two points are 15 minutes apart and all older than
\* 15 minutes by the second call: null for the 10-minute window, a rate for
\* the 30-minute window
RateWindowWitness ==
  /\ Len(made.points) = 3
  /\ Len(result.calls) = 2
  /\ result.calls[1].windowMinutes = 10 /\ result.calls[1].out = NoRate
  /\ result.calls[2].windowMinutes = 30 /\ result.calls[2].out # NoRate
  /\ result.calls[2].at >= made.points[3].timestamp + 20 * MsPerMinute
  /\ Cardinality(PointsInWindow(made.points, 30)) = 2

----------------------------------------------------------------------------
(* Specification SpecSeries: getTimeSeries of a zone with two sensors and   *)
(* of a zone with none, after the sensors have ingested readings            *)

SeriesZones ==
  <<WithSensors(Zone(IdA, "A", <<IdC>>), <<"s1", "s2">>), Zone(IdC, "C", <<IdA>>)>>

\* minutes at which a sensor may have reported; with referenceTime 100 min
\* and a window of one hour, minute 40 is the oldest instant still inside
ReportMinutes(s) == IF s = "s1" THEN {30, 40, 84, 88} ELSE {82, 86}

ReportTempsF(s) == IF s = "s1" THEN {68} ELSE {62, 70}

SeriesBatches(s) ==
  {<<Reading(s, m * MsPerMinute, Num(t), Undefined, Undefined)>> :
     m \in ReportMinutes(s), t \in ReportTempsF(s)}

SeriesHours == {1, 2}

BucketMinutes == {5, 15}

SeriesRefs == {AnalysisNow, AnalysisNow + 20 * MsPerMinute}

InitSeries ==
  /\ now = AnalysisNow
  /\ readings = [s \in SensorIds |-> <<>>]
  /\ zones = SeriesZones
  /\ made = NoResult
  /\ result = NoResult
  /\ app = NoApp
  /\ cycles = <<>>

\* zone.getTimeSeries(hours, bucketMinutes, referenceTime)
GetTimeSeries(i, hours, bucketMinutes, referenceTime) ==
  /\ result = NoResult
  /\ result' = [kind |-> "series", zone |-> i, hours |-> hours,
                bucketMinutes |-> bucketMinutes, referenceTime |-> referenceTime,
                before |-> readings,
                out |-> getTimeSeries(zones[i], hours, bucketMinutes, readings, referenceTime)]
  /\ UNCHANGED <<now, readings, zones, made, app, cycles>>

NextSeries ==
  \/ \E s \in SensorIds : \E batch \in SeriesBatches(s) :
       result = NoResult /\ IngestReadings(s, batch)
  \/ \E i \in 1..Len(SeriesZones), h \in SeriesHours, b \in BucketMinutes, ref \in SeriesRefs :
       GetTimeSeries(i, h, b, ref)

SpecSeries == InitSeries /\ [][NextSeries]_vars

\* the stored readings of the zone's sensors that are inside the window of
\* the recorded call, each named by its sensor and its place in the history
SeriesInWindow ==
  LET z == zones[result.zone]
  IN  {sk \in UNION {{<<z.sensors[j], k>> : k \in 1..Len(result.before[z.sensors[j]])} :
                       j \in 1..Len(z.sensors)} :
         result.before[sk[1]][sk[2]].timestamp
           >= result.referenceTime - result.hours * MsPerHour}

SeriesBucketMs == result.bucketMinutes * MsPerMinute

\* the in-window readings whose timestamp falls into bucket number b
SeriesBucket(b) ==
  {sk \in SeriesInWindow : result.before[sk[1]][sk[2]].timestamp \div SeriesBucketMs = b}

RECURSIVE TempSumOf(_)
TempSumOf(sks) ==
  IF sks = {} THEN QInt(0)
  ELSE LET sk == CHOOSE x \in sks : TRUE
       IN  QAdd(TempSumOf(sks \ {sk}), QInt(result.before[sk[1]][sk[2]].tempF.v))

\* C23: getTimeSeries returns exactly one point per distinct bucket
\* floor(timestamp / bucket width) among the zone's readings inside the
\* window, stamped with the bucket's midpoint and carrying the mean tempF
\* of the bucket's readings, in strictly ascending order of timestamp; no
\* reading in the window gives the empty series; no history is changed.
SeriesOnePointPerBucket ==
  result.kind = "series" =>
    LET out == result.out
        buckets == {result.before[sk[1]][sk[2]].timestamp \div SeriesBucketMs :
                      sk \in SeriesInWindow}
    IN  /\ Len(out) = Cardinality(buckets)
        /\ \A b \in buckets :
             \E k \in 1..Len(out) :
               /\ out[k].timestamp = b * SeriesBucketMs + SeriesBucketMs \div 2
               /\ out[k].tempF =
                    QDiv(TempSumOf(SeriesBucket(b)), QInt(Cardinality(SeriesBucket(b))))
        /\ \A k \in 1..(Len(out) - 1) : out[k].timestamp < out[k + 1].timestamp
        /\ (SeriesInWindow = {}) => out = <<>>
        /\ readings = result.before

\* both sensors have readings, one older than the window and one exactly on
\* its edge; the second sensor's bucket is earlier than the first sensor's
\* latest one, and two buckets hold readings of both sensors
SeriesWitness ==
  /\ result.kind = "series"
  /\ result.zone = 1 /\ result.hours = 1 /\ result.bucketMinutes = 5
  /\ result.referenceTime = AnalysisNow
  /\ Len(readings["s1"]) = 4 /\ Len(readings["s2"]) = 2
  /\ Len(result.out) = 3
  /\ result.out[1].timestamp = 42 * MsPerMinute + 30000
  /\ \E k \in 1..Len(result.out) : result.out[k].tempF = QInt(65)

\* C30: in every point getTimeSeries returns, sensorCount is the number of
\* distinct sensors of the zone with a reading in that bucket, and so never
\* exceeds the number of sensors the zone has.
SensorCountCountsSensors ==
  result.kind = "series" =>
    \A k \in 1..Len(result.out) :
      LET b == (result.out[k].timestamp - SeriesBucketMs \div 2) \div SeriesBucketMs
      IN  /\ result.out[k].sensorCount = Cardinality({sk[1] : sk \in SeriesBucket(b)})
          /\ result.out[k].sensorCount <= Len(zones[result.zone].sensors)

----------------------------------------------------------------------------
(* Stopping, failed fetches and overlapping refreshes of App *)

\* C24: once stop() has been called after start() was invoked, also while
\* start() still awaits its initial refresh, the timer starts no further
\* refresh.
StopStopsPolling ==
  [][app.stopped => Len(cycles') = Len(cycles)]_vars

\* C25: loadDashboard does not reject because a fetch failed: a failed
\* fetchReadings is recorded as 'readings' and leaves every sensor with an
\* empty history, a failed fetchLatestWeather is recorded as 'weather' with
\* weather null, the weather fetch follows the readings fetch whatever its
\* outcome, and stats.failed lists exactly the fetches that failed.
FetchFailuresRecorded ==
  [][\A i \in 1..Len(cycles) :
       /\ \A o \in ReadingsOutcomes :
            FetchReadingsSettled(i, o) =>
              /\ cycles'[i].pc = "fetchWeather"
              /\ cycles'[i].failed = IF o.ok THEN <<>> ELSE <<"readings">>
       /\ \A o \in WeatherOutcomes :
            FetchWeatherSettled(i, o) =>
              LET c == cycles'[i]
                  readingsFailed == \E k \in 1..Len(c.failed) : c.failed[k] = "readings"
              IN  /\ c.pc = "loaded"
                  /\ c.failed = cycles[i].failed \o (IF o.ok THEN <<>> ELSE <<"weather">>)
                  /\ c.threw => (~readingsFailed /\ HydrationThrows(cycles[i].rawReadings))
                  /\ readingsFailed => \A s \in SensorIds : readings'[s] = <<>>
                  /\ ~o.ok => c.weather = NoWeather
                  /\ ~c.threw => /\ c.snapshot.stats.failed = c.failed
                                 /\ c.snapshot.weather = c.weather]_vars

\* after a refresh that loaded both sensors, a refresh whose two fetches
\* both failed has returned its snapshot
FetchFailuresWitness ==
  /\ Len(cycles) = 2
  /\ app.lastSnapshot # NoSnapshot
  /\ app.lastSnapshot.stats.loaded = 2
  /\ cycles[2].pc = "loaded"
  /\ ~cycles[2].threw
  /\ cycles[2].snapshot.stats.failed = <<"readings", "weather">>
  /\ cycles[2].snapshot.weather = NoWeather
  /\ \A s \in SensorIds : readings[s] = <<>>

----------------------------------------------------------------------------
(* Specification SpecPolling: the App from the moment start() has returned, *)
(* its initial refresh having failed on a record it could not hydrate (so   *)
(* nothing is cached and no history was touched); cycles holds the          *)
(* refreshes the timer has begun since                                      *)

InitPolling ==
  /\ now = AnalysisNow
  /\ readings = [s \in SensorIds |-> <<>>]
  /\ zones = AppZones
  /\ made = NoResult
  /\ result = NoResult
  /\ app = [kind |-> "app", startPc |-> "done", pollHandle |-> "timer", stopped |-> FALSE,
            lastSnapshot |-> NoSnapshot, lastAnalysis |-> NoResult, statusBar |-> "error"]
  /\ cycles = <<>>

NextPolling ==
  \/ \E i \in 1..Len(cycles), o \in ReadingsOutcomes : FetchReadingsSettled(i, o)
  \/ \E i \in 1..Len(cycles), o \in WeatherOutcomes : FetchWeatherSettled(i, o)
  \/ \E i \in 1..Len(cycles) : RefreshResumes(i)
  \/ PollFires
  \/ Stop

SpecPolling == InitPolling /\ [][NextPolling]_vars

\* the refreshes that have begun and not yet finished rendering
InFlight == {i \in 1..Len(cycles) : cycles[i].pc # "done"}

\* C26: the timer never starts a refresh while an earlier one has not
\* finished loading, analysing and rendering.
RefreshesNeverOverlap ==
  Cardinality(InFlight) <= 1

\* C27: the cached snapshot is never replaced by one of a refresh that
\* started earlier: its loadedAt never decreases.
SnapshotMovesForward ==
  [][(app.lastSnapshot # NoSnapshot /\ app'.lastSnapshot # NoSnapshot)
       => app'.lastSnapshot.loadedAt >= app.lastSnapshot.loadedAt]_vars

----------------------------------------------------------------------------
(* Specification SpecZoneDelta: calcZoneDelta between a zone of four        *)
(* sensors and a zone of one, whose means differ by quarters of a degree    *)

DeltaSensorIds == {"s1", "s2", "s3", "s4", "s5"}

ZoneDeltaZones ==
  <<WithSensors(Zone(IdA, "A", <<IdC>>), <<"s1", "s2", "s3", "s4">>),
    WithSensors(Zone(IdC, "C", <<IdA>>), <<"s5">>)>>

ZoneDeltaTempsF == {70, 71}

ZoneDeltaHistoriesOf(s) ==
  {<<>>} \cup {<<Reading(s, AnalysisNow - MsPerMinute, Num(t), Undefined, Undefined)>> :
                 t \in ZoneDeltaTempsF}

InitZoneDelta ==
  /\ now = AnalysisNow
  /\ readings \in [DeltaSensorIds -> UNION {ZoneDeltaHistoriesOf(s) : s \in DeltaSensorIds}]
  /\ \A s \in DeltaSensorIds : readings[s] \in ZoneDeltaHistoriesOf(s)
  /\ zones = ZoneDeltaZones
  /\ made = NoResult
  /\ result = NoResult
  /\ app = NoApp
  /\ cycles = <<>>

\* calcZoneDelta(zoneA, zoneB)
CalcZoneDelta(i, j) ==
  /\ result = NoResult
  /\ result' = [kind |-> "delta", a |-> i, b |-> j,
                out |-> calcZoneDelta(zones[i], zones[j], readings, now)]
  /\ UNCHANGED <<now, readings, zones, made, app, cycles>>

NextZoneDelta ==
  \E i, j \in 1..Len(ZoneDeltaZones) : i # j /\ CalcZoneDelta(i, j)

SpecZoneDelta == InitZoneDelta /\ [][NextZoneDelta]_vars

\* C28: for two zones that both have a current temperature, calcZoneDelta
\* returns abs equal to the absolute value of the deltaF it returns, warmer
\* is the id of the zone with the strictly higher temperature, and warmer is
\* 'equal' only when the temperatures are tied.
DeltaAbsAndWarmer ==
  result.kind = "delta" =>
    LET tA == Zone_currentTempF(zones[result.a], readings, now)
        tB == Zone_currentTempF(zones[result.b], readings, now)
        out == result.out
    IN  (tA # QNull /\ tB # QNull) =>
          /\ out # NoDelta
          /\ out.abs = QAbs(out.deltaF)
          /\ QGt(tA, tB) => out.warmer = zones[result.a].zoneId
          /\ QLt(tA, tB) => out.warmer = zones[result.b].zoneId
          /\ (out.warmer = <<"e", "q", "u", "a", "l">>) <=> (tA = tB)

----------------------------------------------------------------------------
(* Whole-house spread over temperatures that are not whole numbers: the     *)
(* binary64 counterparts of calcWholeHouseSpread and of the whole-house     *)
(* check of detectAnomalies                                                 *)

\* x * n for x >= 0 and a whole n in 1..128
F64MulNat(x, n) == F64Round(StripZeros(BigMulSmall(x.m, n, 0)), x.e, FALSE)

\* the whole number a digit string below 2^30 stands for
RECURSIVE BigToNat(_)
BigToNat(a) == IF a = <<>> THEN 0 ELSE BigToNat(SubSeq(a, 1, Len(a) - 1)) * 32768 + a[Len(a)]

\* floor(a / 2^k)
BigShiftRight(a, k) ==
  IF k \div 15 >= Len(a) THEN <<>>
  ELSE StripZeros(BigDivSmall(SubSeq(a, 1, Len(a) - k \div 15), 2^(k % 15)).q)

\* Math.round(x) for 0 <= x < 2^28: floor(x + 1/2), that is
\* floor((floor(2x) + 1) / 2)
MathRoundF64(x) ==
  IF x.m = <<>> THEN 0
  ELSE IF x.e >= 0 THEN BigToNat(BigShiftLeft(x.m, x.e))
  ELSE (BigToNat(BigShiftRight(x.m, -x.e - 1)) + 1) \div 2

NoSpreadF64 == [spreadF |-> F64Null, coldest |-> "", warmest |-> ""]

\* covered.sort((a, b) => a.temp - b.temp), stable
RECURSIVE InsertByTempF64(_, _)
InsertByTempF64(sorted, c) ==
  IF sorted = <<>> THEN <<c>>
  ELSE IF ~F64Leq(sorted[Len(sorted)].temp, c.temp)
       THEN Append(InsertByTempF64(SubSeq(sorted, 1, Len(sorted) - 1), c),
                   sorted[Len(sorted)])
       ELSE Append(sorted, c)

RECURSIVE SortByTempF64(_)
SortByTempF64(arr) ==
  IF arr = <<>> THEN <<>>
  ELSE InsertByTempF64(SortByTempF64(SubSeq(arr, 1, Len(arr) - 1)), arr[Len(arr)])

calcWholeHouseSpreadF64(zs, rd, ref) ==
  LET covered ==
        MapSeq(LAMBDA z : [id |-> z.zoneId, name |-> z.name,
                           temp |-> Zone_currentTempF64(z, rd, ref)],
               SelectSeq(zs, LAMBDA z : Zone_currentTempF64(z, rd, ref) # F64Null))
  IN  IF Len(covered) < 2 THEN NoSpreadF64
      ELSE LET sorted == SortByTempF64(covered)
               coldest == sorted[1]
               warmest == sorted[Len(sorted)]
               tenths == MathRoundF64(F64MulNat(F64Sub(warmest.temp, coldest.temp), 10))
           IN  [spreadF |-> F64DivNat(F64FromNat(tenths), 10),
                coldest |-> coldest.name,
                warmest |-> warmest.name]

ZoneF64sOf(zs, rd, ref) ==
  SelectSeq(MapSeq(LAMBDA z : Zone_currentTempF64(z, rd, ref), zs),
            LAMBDA t : t # F64Null)

houseSpreadCheckF64(zs, T, rd, ref) ==
  LET temps == ZoneF64sOf(zs, rd, ref)
  IN  IF Len(temps) >= 2
      THEN LET wholeSpread == F64Sub(F64Max(temps), F64Min(temps))
           IN  IF ~F64Leq(wholeSpread, F64FromNat(T.maxWholeHouseSpreadF))
               THEN <<Anomaly("warning", HouseId, "HOUSE_SPREAD", wholeSpread)>>
               ELSE <<>>
      ELSE <<>>

----------------------------------------------------------------------------
(* Specification SpecHouseSpread: the whole-house part of analyzeZones over *)
(* two zones of one sensor each, whose readings carry hundredths            *)

HouseHundredthsF == {6200, 7000, 7795, 7800, 7804, 7805, 7900}

HouseHistoriesOf(s) ==
  {<<>>} \cup {<<Reading(s, AnalysisNow - MsPerMinute, F64Temp(k), Undefined, Undefined)>> :
                 k \in HouseHundredthsF}

InitHouseSpread ==
  /\ now = AnalysisNow
  /\ readings \in [SensorIds -> UNION {HouseHistoriesOf(s) : s \in SensorIds}]
  /\ \A s \in SensorIds : readings[s] \in HouseHistoriesOf(s)
  /\ zones = AppZones
  /\ made = NoResult
  /\ result = NoResult
  /\ app = NoApp
  /\ cycles = <<>>

\* analyzeZones, steps 3 and 4: houseSpread as calcWholeHouseSpread returns
\* it and the house-wide anomalies of detectAnomalies under the default
\* thresholds
AnalyzeHouse ==
  /\ result = NoResult
  /\ result' = [kind |-> "house",
                houseSpread |-> calcWholeHouseSpreadF64(zones, readings, now),
                anomalies |-> houseSpreadCheckF64(zones, DEFAULT_THRESHOLDS, readings, now)]
  /\ UNCHANGED <<now, readings, zones, made, app, cycles>>

NextHouseSpread == AnalyzeHouse

SpecHouseSpread == InitHouseSpread /\ [][NextHouseSpread]_vars

\* C29: in one analyzeZones result a HOUSE_SPREAD anomaly (zoneId
\* '__house__', level warning) is present exactly when houseSpread is not
\* null and houseSpread.spreadF exceeds maxWholeHouseSpreadF.
HouseSpreadAgrees ==
  result.kind = "house" =>
    /\ \A k \in 1..Len(result.anomalies) :
         /\ result.anomalies[k].code = "HOUSE_SPREAD"
         /\ result.anomalies[k].zoneId = HouseId
         /\ result.anomalies[k].level = "warning"
    /\ (result.anomalies # <<>>)
         <=> /\ result.houseSpread # NoSpreadF64
             /\ ~F64Leq(result.houseSpread.spreadF,
                        F64FromNat(DEFAULT_THRESHOLDS.maxWholeHouseSpreadF))

====
